---------------------------- MODULE Spec2Model ----------------------------
(***************************************************************************)
(* Editing core of neovimjs: the text buffer (Buffer.js), the editor       *)
(* registers and mode (Editor.js), the Normal / Insert / Visual / Command  *)
(* mode handlers, the key-sequence matcher (Keymap.js) and the input loop  *)
(* of the screen (Screen.handleKeyPress / processInput).                   *)
(*                                                                         *)
(* Text is a sequence of one-character strings; "\n" is the newline        *)
(* character.  Rows and columns are 0-indexed as in the source, sequences  *)
(* are 1-indexed, so line r of the buffer is lines[r + 1].                 *)
(***************************************************************************)
EXTENDS Integers, Sequences, FiniteSets, TLC

VARIABLES
  buffer,      \* the current Buffer: lines, cursor, history, historyIndex, modified, selection
  editor,      \* Editor: mode, visualMode, registers
  normalMode,  \* NormalMode parse state: count, register, operator, operatorPending
  visualMode,  \* VisualMode parse state: count, operator
  commandMode, \* CommandMode: commandBuffer
  screen,      \* Screen: inputBuffer, inputTimeout, cmdline, message; the process
  window,      \* the active Window: scrollLine, scrollCol, height, width
  layout,      \* the Window objects and the TabManager: windows, tabs, activeTabIndex
  keymap,      \* Keymap.keymaps.n: the Normal-mode entry list
  obs          \* observations of the last call: op, ret, pre, post, ...

vars ==
  <<buffer, editor, normalMode, visualMode, commandMode, screen, window, layout, keymap, obs>>

----------------------------------------------------------------------------
(* Bounds of the exploration *)

\* number of TextBuffer API calls in one behaviour of SpecBuf
MaxOps == 4
\* number of key events in one behaviour of Spec
MaxKeys == 3
\* Buffer.historyLimit, scaled down from the source's 1000 so that the cap is reached
historyLimit == 2

----------------------------------------------------------------------------
(* JavaScript primitives *)

Min(a, b) == IF a < b THEN a ELSE b
Max(a, b) == IF a > b THEN a ELSE b

\* String.prototype.slice(from, to): negative indices count from the end
SliceIdx(n, i) == IF i < 0 THEN Max(n + i, 0) ELSE Min(i, n)
Slice(s, from, to) ==
  LET a == SliceIdx(Len(s), from)
      b == SliceIdx(Len(s), to)
  IN  IF a < b THEN SubSeq(s, a + 1, b) ELSE <<>>
SliceFrom(s, from) == Slice(s, from, Len(s))

\* String.prototype.split('\n')
RECURSIVE Split(_)
Split(text) ==
  IF \A i \in 1..Len(text) : text[i] # "\n"
  THEN <<text>>
  ELSE LET i == CHOOSE j \in 1..Len(text) :
                  text[j] = "\n" /\ \A k \in 1..(j - 1) : text[k] # "\n"
       IN  <<SubSeq(text, 1, i - 1)>> \o Split(SubSeq(text, i + 1, Len(text)))

\* Array.prototype.join('\n')
RECURSIVE Join(_)
Join(ls) ==
  IF Len(ls) = 0 THEN <<>>
  ELSE IF Len(ls) = 1 THEN ls[1]
  ELSE ls[1] \o <<"\n">> \o Join(Tail(ls))

\* Array.prototype.splice(index, 1): remove one element
SpliceIdx(n, i) == IF i < 0 THEN Max(n + i, 0) ELSE Min(i, n)
RemoveAt(ls, index) ==
  LET i == SpliceIdx(Len(ls), index)
  IN  IF i < Len(ls) THEN SubSeq(ls, 1, i) \o SubSeq(ls, i + 2, Len(ls)) ELSE ls
\* Array.prototype.splice(index, 0, ...items): insert elements
InsertAt(ls, index, items) ==
  LET i == SpliceIdx(Len(ls), index)
  IN  SubSeq(ls, 1, i) \o items \o SubSeq(ls, i + 1, Len(ls))

----------------------------------------------------------------------------
(* Buffer (src/neovimjs/src/core/Buffer.js) *)

NoSelection == [start |-> <<>>, end |-> <<>>, visualMode |-> "null"]

\* new Buffer(content)
NewBuffer(content) ==
  [ lines        |-> IF Len(content) > 0 THEN Split(content) ELSE << <<>> >>,
    cursor       |-> [row |-> 0, col |-> 0],
    history      |-> <<>>,
    historyIndex |-> -1,
    modified     |-> FALSE,
    path         |-> <<>>,
    selection    |-> NoSelection,
    threw        |-> FALSE ]

getLineCount(b) == Len(b.lines)
HasLine(b, row) == row >= 0 /\ row < Len(b.lines)
\* this.lines[row] || ''
getLine(b, row) == IF HasLine(b, row) THEN b.lines[row + 1] ELSE <<>>
getLineLength(b, row) == Len(getLine(b, row))
getContent(b) == Join(b.lines)

\* setCursor clamping the column only from above
setCursor_noFloor(b, row, col) ==
  LET r == Max(0, Min(row, Len(b.lines) - 1))
  IN  [b EXCEPT !.cursor = [row |-> r, col |-> Min(col, getLineLength(b, r))]]

setCursor(b, row, col) ==
  LET r == Max(0, Min(row, Len(b.lines) - 1))
      c == Max(0, Min(col, getLineLength(b, r)))
  IN  [b EXCEPT !.cursor = [row |-> r, col |-> c]]

moveCursor(b, dRow, dCol) == setCursor(b, b.cursor.row + dRow, b.cursor.col + dCol)

\* saveHistory that keeps the redo tail
saveHistory_keepTail(b) ==
  LET pushed == Append(b.history, [lines |-> b.lines, cursor |-> b.cursor])
  IN  IF Len(pushed) > historyLimit
      THEN [b EXCEPT !.history = Tail(pushed)]
      ELSE [b EXCEPT !.history = pushed, !.historyIndex = b.historyIndex + 1]

\* saveHistory that never shifts the oldest snapshot out
saveHistory_uncapped(b) ==
  LET kept   == SubSeq(b.history, 1, b.historyIndex + 1)
      pushed == Append(kept, [lines |-> b.lines, cursor |-> b.cursor])
  IN  [b EXCEPT !.history = pushed, !.historyIndex = b.historyIndex + 1]

saveHistory(b) ==
  LET kept   == SubSeq(b.history, 1, b.historyIndex + 1)
      pushed == Append(kept, [lines |-> b.lines, cursor |-> b.cursor])
  IN  IF Len(pushed) > historyLimit
      THEN [b EXCEPT !.history = Tail(pushed)]
      ELSE [b EXCEPT !.history = pushed, !.historyIndex = b.historyIndex + 1]

\* an exception leaves the object as it was when the exception was raised
Throw(b) == [b EXCEPT !.threw = TRUE]

\* insert(text, pos): pos = <<>> stands for null (the cursor is used)
Position(b, pos) == IF pos = <<>> THEN b.cursor ELSE pos

insert(b, text, pos) ==
  LET position == Position(b, pos)
      row      == position.row
      col      == position.col
      saved    == saveHistory(b)
      line     == b.lines[row + 1]
      newLines == Split(text)
      n        == Len(newLines)
  IN  IF ~HasLine(b, row) THEN Throw(saved)
      ELSE IF n > 1
      THEN LET first == Slice(line, 0, col) \o newLines[1]
               rest  == [i \in 1..(n - 1) |->
                           IF i = n - 1 THEN newLines[i + 1] \o SliceFrom(line, col)
                                        ELSE newLines[i + 1]]
           IN  [saved EXCEPT
                  !.lines = InsertAt([b.lines EXCEPT ![row + 1] = first], row + 1, rest),
                  !.modified = TRUE]
      ELSE [saved EXCEPT
              !.lines = [b.lines EXCEPT ![row + 1] =
                           Slice(line, 0, col) \o text \o SliceFrom(line, col)],
              !.modified = TRUE]

\* the text that delete(length, pos) returns
deleted(b, length, pos) ==
  LET position == Position(b, pos)
  IN  Slice(getLine(b, position.row), position.col, position.col + length)

delete(b, length, pos) ==
  LET position == Position(b, pos)
      row      == position.row
      col      == position.col
      saved    == saveHistory(b)
      line     == b.lines[row + 1]
  IN  IF ~HasLine(b, row) THEN Throw(saved)
      ELSE [saved EXCEPT
              !.lines = [b.lines EXCEPT ![row + 1] =
                           Slice(line, 0, col) \o SliceFrom(line, col + length)],
              !.modified = TRUE]

\* deleteLine without the push of '' into an emptied line list
deleteLine_noRefill(b, row) ==
  [saveHistory(b) EXCEPT !.lines = RemoveAt(b.lines, row), !.modified = TRUE]

deleteLine(b, row) ==
  LET saved   == saveHistory(b)
      spliced == RemoveAt(b.lines, row)
  IN  [saved EXCEPT
         !.lines = IF Len(spliced) = 0 THEN << <<>> >> ELSE spliced,
         !.modified = TRUE]

\* replaceLine(row, text), for a row of the buffer
replaceLine(b, row, text) ==
  [saveHistory(b) EXCEPT !.lines = [b.lines EXCEPT ![row + 1] = text],
                         !.modified = TRUE]

appendLine(b, row, text) ==
  [saveHistory(b) EXCEPT !.lines = InsertAt(b.lines, row + 1, <<text>>),
                         !.modified = TRUE]

clear(b) ==
  [saveHistory(b) EXCEPT !.lines = << <<>> >>,
                         !.cursor = [row |-> 0, col |-> 0],
                         !.modified = TRUE]

canUndo(b) == b.historyIndex >= 0
\* undo that restores the lines only
undo_linesOnly(b) ==
  IF canUndo(b)
  THEN LET state == b.history[b.historyIndex + 1]
       IN  [b EXCEPT !.lines = state.lines,
                     !.historyIndex = b.historyIndex - 1,
                     !.modified = TRUE]
  ELSE b

undo(b) ==
  IF canUndo(b)
  THEN LET state == b.history[b.historyIndex + 1]
       IN  [b EXCEPT !.lines = state.lines,
                     !.cursor = state.cursor,
                     !.historyIndex = b.historyIndex - 1,
                     !.modified = TRUE]
  ELSE b

canRedo(b) == b.historyIndex < Len(b.history) - 1
redo(b) ==
  IF canRedo(b)
  THEN LET state == b.history[b.historyIndex + 2]
       IN  [b EXCEPT !.lines = state.lines,
                     !.cursor = state.cursor,
                     !.historyIndex = b.historyIndex + 1,
                     !.modified = TRUE]
  ELSE b

\* getRange(startRow, startCol, endRow, endCol); RangeThrows: a row read is not a line
RangeThrows(b, startRow, endRow) ==
  \/ ~HasLine(b, startRow)
  \/ startRow # endRow /\ ~HasLine(b, endRow)
getRange(b, startRow, startCol, endRow, endCol) ==
  IF startRow = endRow
  THEN Slice(b.lines[startRow + 1], startCol, endCol)
  ELSE Join(<<SliceFrom(b.lines[startRow + 1], startCol)>>
            \o [i \in 1..Max(0, endRow - startRow - 1) |-> b.lines[startRow + i + 1]]
            \o <<Slice(b.lines[endRow + 1], 0, endCol)>>)

----------------------------------------------------------------------------
(* Editor (src/unnamed/part_000): mode, selection and registers.            *)
(* The handlers below act on a world w = [b, e, n, v, c, win]: the current  *)
(* buffer, the editor, the NormalMode / VisualMode / CommandMode objects    *)
(* and the active window; w.ret is the handler's "handled" result.          *)

\* Editor.getSelection() is non-null
hasSelection(b) ==
  /\ b.selection # <<>>
  /\ b.selection.start # <<>>
  /\ b.selection.end # <<>>

Editor_setMode(w, mode, vmode) ==
  [w EXCEPT !.e.mode = mode,
            !.e.visualMode = vmode,
            !.b.selection = IF mode # "visual" /\ mode # "select" /\ hasSelection(w.b)
                            THEN <<>> ELSE w.b.selection]

\* a register name that was never written reads as '' (both are falsy)
RegisterName(register) == IF register = "null" THEN "default" ELSE register

Editor_yank(w, text, register) ==
  [w EXCEPT !.e.registers =
     [[w.e.registers EXCEPT ![RegisterName(register)] = text] EXCEPT !["0"] = text]]

Editor_paste(w, register) ==
  IF w.e.registers[RegisterName(register)] # <<>>
  THEN w.e.registers[RegisterName(register)]
  ELSE w.e.registers["default"]

NumberedRegisters == <<"1", "2", "3", "4", "5", "6", "7", "8", "9">>
Editor_delete(w, text, register) ==
  LET old     == w.e.registers
      shifted == [r \in DOMAIN old |->
                    IF \E i \in 2..9 : r = NumberedRegisters[i]
                    THEN old[NumberedRegisters[(CHOOSE i \in 2..9 : r = NumberedRegisters[i]) - 1]]
                    ELSE IF r = "1" THEN (IF old["1"] # <<>> THEN old["1"] ELSE text)
                    ELSE old[r]]
  IN  [w EXCEPT !.e.registers =
         IF register # "null" THEN [shifted EXCEPT ![register] = text] ELSE shifted]

\* buffer.lines[row] = text, written directly by the handlers (row <= lines.length)
SetLine(b, row, text) ==
  IF row < Len(b.lines)
  THEN [b EXCEPT !.lines[row + 1] = text]
  ELSE [b EXCEPT !.lines = Append(b.lines, text)]

\* buffer.lines[row] inside a string concatenation
LineOrUndefined(b, row) ==
  IF HasLine(b, row) THEN b.lines[row + 1] ELSE <<"u", "n", "d", "e", "f", "i", "n", "e", "d">>

\* Window.scrollTo(line)
scrollTo(win, line) == [win EXCEPT !.scrollLine = Max(0, line), !.scrollCol = 0]

----------------------------------------------------------------------------
(* NormalMode (src/unnamed/part_002): word motions *)

Letters == { "a", "b", "c", "d", "e", "f", "g", "h", "i", "j", "k", "l", "m",
             "n", "o", "p", "q", "r", "s", "t", "u", "v", "w", "x", "y", "z" }
UpperLetters == { "A", "B", "C", "D", "E", "F", "G", "H", "I", "J", "K", "L", "M",
                  "N", "O", "P", "Q", "R", "S", "T", "U", "V", "W", "X", "Y", "Z" }
isWordChar(char) == char \in Letters \cup UpperLetters \cup {"0", "1", "2", "3", "4", "5", "6", "7", "8", "9", "_"}
isSpace(char) == char \in {" ", "\t", "\n"}
isNonWordChar(char) == ~isWordChar(char) /\ ~isSpace(char)

\* line[i] || ' '
CharAt(line, i) == IF i >= 0 /\ i < Len(line) THEN line[i + 1] ELSE " "

Pos(row, col) == [row |-> row, col |-> col]
\* the scan read a property of an undefined line
PosThrown == [row |-> 0, col |-> 0, threw |-> TRUE]
Threw(pos) == "threw" \in DOMAIN pos

RECURSIVE findWordStartLoop(_, _, _, _, _)
findWordStartLoop(lines, currentRow, currentCol, found, count) ==
  IF ~(found < count /\ currentRow < Len(lines))
  THEN Pos(currentRow, currentCol)
  ELSE LET line == lines[currentRow + 1]
       IN  IF currentCol < Len(line) - 1
           THEN LET col      == currentCol + 1
                    prevChar == IF col > 0 THEN CharAt(line, col - 1) ELSE " "
                    currChar == CharAt(line, col)
                IN  IF isSpace(prevChar) /\ (isWordChar(currChar) \/ isNonWordChar(currChar))
                    THEN IF found + 1 >= count
                         THEN Pos(currentRow, col)
                         ELSE findWordStartLoop(lines, currentRow, col, found + 1, count)
                    ELSE findWordStartLoop(lines, currentRow, col, found, count)
           ELSE findWordStartLoop(lines, currentRow + 1, 0, found, count)

findWordStart(b, cursor, count) ==
  findWordStartLoop(b.lines, cursor.row, cursor.col, 0, count)

RECURSIVE findWordEndLoop(_, _, _, _, _)
findWordEndLoop(lines, currentRow, currentCol, found, count) ==
  IF ~(found < count /\ currentRow < Len(lines))
  THEN Pos(currentRow, currentCol)
  ELSE LET line == lines[currentRow + 1]
       IN  IF currentCol < Len(line) - 1
           THEN LET col      == currentCol + 1
                    prevChar == IF col > 0 THEN CharAt(line, col - 1) ELSE " "
                    currChar == CharAt(line, col)
                    hit      == \/ isWordChar(prevChar) /\ ~isWordChar(currChar)
                                \/ isNonWordChar(prevChar) /\ isSpace(currChar)
                                \/ isSpace(prevChar)
                                     /\ (isWordChar(currChar) \/ isNonWordChar(currChar))
                IN  IF hit
                    THEN IF found + 1 >= count
                         THEN Pos(currentRow, col)
                         ELSE findWordEndLoop(lines, currentRow, col, found + 1, count)
                    ELSE findWordEndLoop(lines, currentRow, col, found, count)
           ELSE findWordEndLoop(lines, currentRow + 1, 0, found, count)

findWordEnd(b, cursor, count) ==
  findWordEndLoop(b.lines, cursor.row, cursor.col, 0, count)

RECURSIVE findPrevWordStartLoop(_, _, _, _, _)
findPrevWordStartLoop(lines, currentRow, currentCol, found, count) ==
  IF ~(found < count /\ currentRow >= 0)
  THEN Pos(currentRow, currentCol)
  ELSE IF currentCol > 0
  THEN IF currentRow >= Len(lines) THEN PosThrown
       ELSE LET line     == lines[currentRow + 1]
                col      == currentCol - 1
                currChar == CharAt(line, col)
                nextChar == IF col < Len(line) - 1 THEN CharAt(line, col + 1) ELSE " "
            IN  IF (isWordChar(currChar) \/ isNonWordChar(currChar)) /\ isSpace(nextChar)
                THEN IF found + 1 >= count
                     THEN Pos(currentRow, col)
                     ELSE findPrevWordStartLoop(lines, currentRow, col, found + 1, count)
                ELSE findPrevWordStartLoop(lines, currentRow, col, found, count)
  ELSE IF currentRow - 1 >= 0
       THEN IF currentRow - 1 >= Len(lines) THEN PosThrown
            ELSE findPrevWordStartLoop(lines, currentRow - 1, Len(lines[currentRow]),
                                       found, count)
       ELSE findPrevWordStartLoop(lines, currentRow - 1, currentCol, found, count)

findPrevWordStart(b, cursor, count) ==
  findPrevWordStartLoop(b.lines, cursor.row, cursor.col, 0, count)

\* line.search(/\S/): index of the first non-blank character, or -1
RECURSIVE searchNonBlankFrom(_, _)
searchNonBlankFrom(line, i) ==
  IF i >= Len(line) THEN -1
  ELSE IF ~isSpace(line[i + 1]) THEN i
  ELSE searchNonBlankFrom(line, i + 1)
searchNonBlank(line) == searchNonBlankFrom(line, 0)

----------------------------------------------------------------------------
(* NormalMode (src/unnamed/part_002): the key handler *)

Handled(w, r) == [w EXCEPT !.ret = r]
\* an exception raised inside a handler propagates to its caller
Raise(w) == [w EXCEPT !.b.threw = TRUE]

\* reset() leaving the operator-pending flag set
NormalMode_reset_keepPending(w) ==
  [w EXCEPT !.n = [count |-> 0, register |-> "null", operator |-> "null",
                   operatorPending |-> TRUE]]

NormalMode_reset(w) ==
  [w EXCEPT !.n = [count |-> 0, register |-> "null", operator |-> "null",
                   operatorPending |-> FALSE]]

DigitKeys == {"0", "1", "2", "3", "4", "5", "6", "7", "8", "9"}
\* parseInt(input, 10)
parseInt(input) ==
  CASE input = "0" -> 0 [] input = "1" -> 1 [] input = "2" -> 2 [] input = "3" -> 3
    [] input = "4" -> 4 [] input = "5" -> 5 [] input = "6" -> 6 [] input = "7" -> 7
    [] input = "8" -> 8 [] input = "9" -> 9

OperatorKeys == {"d", "y", "c", "p", ">", "<", "=", "g", "z"}

\* this.count || 1
CountOr1(count) == IF count # 0 THEN count ELSE 1

RECURSIVE gePrevWord(_, _)
gePrevWord(b, i) ==
  IF i = 0 \/ b.threw THEN b
  ELSE LET pos == findPrevWordStart(b, b.cursor, 1)
       IN  IF Threw(pos) THEN Throw(b)
           ELSE gePrevWord(setCursor(b, pos.row, pos.col), i - 1)

handleGOperator(w, input) ==
  LET count == CountOr1(w.n.count)
      b2    == CASE input = "g" -> setCursor(w.b, Max(0, count - 1), 0)
                 [] input = "e" -> gePrevWord(w.b, count)
                 [] OTHER       -> w.b
  IN  IF b2.threw THEN [w EXCEPT !.b = b2]
      ELSE Handled(NormalMode_reset([w EXCEPT !.b = b2]), TRUE)

handleZOperator(w, input) ==
  LET row  == w.b.cursor.row
      win2 == CASE input = "z" -> scrollTo(w.win, row - (w.win.height \div 2))
                [] input = "t" -> scrollTo(w.win, row)
                [] input = "b" -> scrollTo(w.win, row - w.win.height + 1)
                [] OTHER       -> w.win
  IN  Handled(NormalMode_reset([w EXCEPT !.win = win2]), TRUE)

\* the motions handleOperatorMotion recognises (W, B, E leave the range empty)
OperatorMotions == {"l", " ", "h", "j", "\n", "k", "w", "b", "e", "0", "^", "$", "G",
                    "W", "B", "E"}

\* the position the motion reaches from the cursor
motionEnd(b, motion, count) ==
  LET cursor == b.cursor
  IN  CASE motion \in {"l", " "} ->
             Pos(cursor.row, Min(getLineLength(b, cursor.row) - 1, cursor.col + count))
        [] motion = "h" -> Pos(cursor.row, Max(0, cursor.col - count))
        [] motion \in {"j", "\n"} -> Pos(Min(getLineCount(b) - 1, cursor.row + count), cursor.col)
        [] motion = "k" -> Pos(Max(0, cursor.row - count), cursor.col)
        [] motion = "w" -> findWordStart(b, cursor, count)
        [] motion = "b" -> findPrevWordStart(b, cursor, count)
        [] motion = "e" -> findWordEnd(b, cursor, count)
        [] motion = "0" -> Pos(cursor.row, 0)
        [] motion = "^" -> Pos(cursor.row, Max(0, searchNonBlank(getLine(b, cursor.row))))
        [] motion = "$" -> Pos(cursor.row, getLineLength(b, cursor.row) - 1)
        [] motion = "G" -> Pos(Min(getLineCount(b) - 1, count - 1), 0)
        [] OTHER -> cursor

\* for (i = start.row; i <= end.row; i++) buffer.deleteLine(start.row)
RECURSIVE deleteLines(_, _, _)
deleteLines(b, row, k) ==
  IF k <= 0 THEN b ELSE deleteLines(deleteLine(b, row), row, k - 1)

\* case 'd' of handleOperatorMotion
operatorDelete(w, start, end) ==
  IF RangeThrows(w.b, start.row, end.row) THEN Raise(w)
  ELSE LET text == getRange(w.b, start.row, start.col, end.row, end.col)
           w1   == Editor_delete(w, text, w.n.register)
           b2   == IF start.row = end.row
                   THEN SetLine(w.b, start.row,
                                Slice(getLine(w.b, start.row), 0, start.col)
                                  \o SliceFrom(getLine(w.b, end.row), end.col + 1))
                   ELSE SetLine(deleteLines(w.b, start.row, end.row - start.row + 1),
                                start.row, <<>>)
       IN  [w1 EXCEPT !.b = setCursor(b2, start.row,
                                      Min(start.col, getLineLength(b2, start.row) - 1))]

\* case 'y'
operatorYank(w, start, end) ==
  IF RangeThrows(w.b, start.row, end.row) THEN Raise(w)
  ELSE Editor_yank(w, getRange(w.b, start.row, start.col, end.row, end.col + 1),
                   w.n.register)

\* case 'c'
operatorChange(w, start, end) ==
  IF RangeThrows(w.b, start.row, end.row) THEN Raise(w)
  ELSE Editor_setMode(
         Editor_delete(w, getRange(w.b, start.row, start.col, end.row, end.col + 1),
                       w.n.register),
         "insert", "null")

handleOperatorMotion(w, motion) ==
  LET count == CountOr1(w.n.count)
      start == w.b.cursor
      end   == motionEnd(w.b, motion, count)
      w2    == CASE w.n.operator = "d" -> operatorDelete(w, start, end)
                 [] w.n.operator = "y" -> operatorYank(w, start, end)
                 [] w.n.operator = "c" -> operatorChange(w, start, end)
                 [] OTHER              -> w
  IN  IF motion \notin OperatorMotions THEN Handled(NormalMode_reset(w), FALSE)
      ELSE IF Threw(end) THEN Raise(w)
      ELSE IF w2.b.threw THEN w2
      ELSE Handled(NormalMode_reset(w2), TRUE)

\* the keys of handleMotion that the model feeds; any other key is its default case
MotionKeys == {"h", "j", "k", "l", " ", "w", "b", "e", "0", "^", "$", "G",
               "i", "I", "a", "A", "o", "O", "x", "X", "s", "S", "C", "P",
               "R", "v", "V", "u", "<C-r>", ":", "/", "?", "."}
\* keys after which handleMotion returns true without resetting the parse state
\* (also the two quote keys, which the model does not feed)
PrefixKeys == {"r", "m"}

\* the body of one case of the switch of handleMotion
motionCase(w, input) ==
  LET b      == w.b
      cursor == b.cursor
      count  == CountOr1(w.n.count)
      first  == Max(0, searchNonBlank(getLine(b, cursor.row)))
  IN  CASE input = "h" -> [w EXCEPT !.b = moveCursor(b, 0, -count)]
        [] input = "j" -> [w EXCEPT !.b = moveCursor(b, count, 0)]
        [] input = "k" -> [w EXCEPT !.b = moveCursor(b, -count, 0)]
        [] input \in {"l", " "} -> [w EXCEPT !.b = moveCursor(b, 0, count)]
        [] input = "w" ->
             LET pos == findWordStart(b, cursor, count)
             IN  [w EXCEPT !.b = setCursor(b, pos.row, pos.col)]
        [] input = "b" ->
             LET pos == findPrevWordStart(b, cursor, count)
             IN  IF Threw(pos) THEN Raise(w)
                 ELSE [w EXCEPT !.b = setCursor(b, pos.row, pos.col)]
        [] input = "e" ->
             LET pos == findWordEnd(b, cursor, count)
             IN  [w EXCEPT !.b = setCursor(b, pos.row, Max(0, pos.col - 1))]
        [] input = "0" -> [w EXCEPT !.b = setCursor(b, cursor.row, 0)]
        [] input = "^" -> [w EXCEPT !.b = setCursor(b, cursor.row, first)]
        [] input = "$" ->
             [w EXCEPT !.b = setCursor(b, cursor.row, Max(0, getLineLength(b, cursor.row) - 1))]
        [] input = "G" ->
             [w EXCEPT !.b = setCursor(b, IF count > 1 THEN count - 1 ELSE getLineCount(b) - 1, 0)]
        [] input = "i" -> Editor_setMode(w, "insert", "null")
        [] input = "I" ->
             Editor_setMode([w EXCEPT !.b = setCursor(b, cursor.row, first)], "insert", "null")
        [] input = "a" -> Editor_setMode([w EXCEPT !.b = moveCursor(b, 0, 1)], "insert", "null")
        [] input = "A" ->
             Editor_setMode([w EXCEPT !.b = setCursor(b, cursor.row, getLineLength(b, cursor.row))],
                            "insert", "null")
        [] input = "o" ->
             Editor_setMode([w EXCEPT !.b = setCursor(appendLine(b, cursor.row, <<>>),
                                                      cursor.row + 1, 0)],
                            "insert", "null")
        [] input = "O" ->
             Editor_setMode([w EXCEPT !.b = setCursor([b EXCEPT !.lines =
                                                         InsertAt(b.lines, cursor.row, << <<>> >>)],
                                                      cursor.row, 0)],
                            "insert", "null")
        [] input = "x" ->
             LET b2 == delete(b, 1, <<>>)
             IN  IF b2.threw THEN [w EXCEPT !.b = b2]
                 ELSE Editor_delete([w EXCEPT !.b = b2], deleted(b, 1, <<>>), w.n.register)
        [] input = "X" ->
             LET b1 == moveCursor(b, 0, -1)
                 b2 == delete(b1, 1, <<>>)
             IN  IF b2.threw THEN [w EXCEPT !.b = b2]
                 ELSE Editor_delete([w EXCEPT !.b = b2], deleted(b1, 1, <<>>), w.n.register)
        [] input = "s" ->
             LET b2 == delete(b, 1, <<>>)
             IN  IF b2.threw THEN [w EXCEPT !.b = b2]
                 ELSE Editor_setMode([w EXCEPT !.b = b2], "insert", "null")
        [] input = "S" ->
             Editor_setMode([w EXCEPT !.b = SetLine(b, cursor.row, <<>>)], "insert", "null")
        [] input = "C" ->
             Editor_setMode([w EXCEPT !.b = setCursor(SetLine(b, cursor.row, <<>>), cursor.row, 0)],
                            "insert", "null")
        [] input = "P" ->
             LET text2 == Editor_paste(w, w.n.register)
             IN  IF text2 # <<>> THEN [w EXCEPT !.b = insert(b, text2, cursor)] ELSE w
        [] input = "R" -> Editor_setMode(w, "replace", "null")
        [] input \in {"v", "V"} ->
             [Editor_setMode(w, "visual", input) EXCEPT
                !.b.selection = [start |-> cursor, end |-> cursor, visualMode |-> input]]
        [] input = "u" -> [w EXCEPT !.b = undo(b)]
        [] input = "<C-r>" -> [w EXCEPT !.b = redo(b)]
        [] input = ":" -> Editor_setMode(w, "command", "null")
        [] input \in {"/", "?"} -> Editor_setMode(w, "search", "null")
        [] OTHER -> w

handleMotion(w, input) ==
  LET w2 == motionCase(w, input)
  IN  IF input \in PrefixKeys
      THEN Handled([w EXCEPT !.n.operator = input, !.n.operatorPending = TRUE], TRUE)
      ELSE IF input = "<C-w>" THEN Handled(w, TRUE)
      ELSE IF input \notin MotionKeys THEN Handled(w, FALSE)
      ELSE IF w2.b.threw THEN w2
      ELSE Handled(NormalMode_reset(w2), TRUE)

NormalMode_handle(w, input) ==
  IF input \in DigitKeys \ {"0"} \/ (w.n.count > 0 /\ input \in DigitKeys)
  THEN Handled([w EXCEPT !.n.count = w.n.count * 10 + parseInt(input)], TRUE)
  ELSE IF input = "\""
  THEN Handled([w EXCEPT !.n.operatorPending = TRUE], TRUE)
  ELSE IF input \in OperatorKeys
  THEN Handled([w EXCEPT !.n.operator = input, !.n.operatorPending = TRUE], TRUE)
  ELSE IF w.n.operator = "g" THEN handleGOperator(w, input)
  ELSE IF w.n.operator = "z" THEN handleZOperator(w, input)
  ELSE IF w.n.operatorPending /\ w.n.operator # "null" THEN handleOperatorMotion(w, input)
  ELSE handleMotion(w, input)

----------------------------------------------------------------------------
(* InsertMode (src/neovimjs/src/keymaps/InsertMode.js) *)

\* Editor.options.shiftwidth and ' '.repeat(shiftwidth)
shiftwidth == 4
indent == [i \in 1..shiftwidth |-> " "]
\* line.startsWith(prefix)
startsWith(line, prefix) ==
  Len(line) >= Len(prefix) /\ SubSeq(line, 1, Len(prefix)) = prefix

\* case '<BS>' / '<C-h>'
insertBackspace(b) ==
  LET cursor == b.cursor
  IN  IF cursor.col > 0
      THEN delete(moveCursor(b, 0, -1), 1, <<>>)
      ELSE IF cursor.row > 0
      THEN LET prevLineLen == getLineLength(b, cursor.row - 1)
               joined == [b.lines EXCEPT ![cursor.row] =
                            b.lines[cursor.row] \o LineOrUndefined(b, cursor.row)]
           IN  setCursor([b EXCEPT !.lines = RemoveAt(joined, cursor.row)],
                         cursor.row - 1, prevLineLen)
      ELSE b

\* Window.scroll(deltaLines)
scroll(win, deltaLines) ==
  [win EXCEPT !.scrollLine = Max(0, win.scrollLine + deltaLines),
              !.scrollCol = Max(0, win.scrollCol)]

\* the key tokens longer than one character (input.length # 1); "<keys>" is an input
\* of no key or of several keys, which is no case label of any handler
BracketKeys == {"<keys>", "<Esc>", "<C-c>", "<C-[", "<CR>", "<Tab>", "<BS>", "<C-h>", "<Del>", "<C-k>",
                "<C-u>", "<Up>", "<Down>", "<Left>", "<Right>", "<Home>", "<End>", "<C-e>",
                "<PageUp>", "<PageDown>", "<C-v>", "<C-t>", "<C-d>", "<C-w>", "<C-r>"}
\* the tokens InsertMode.handle has a case for
InsertSpecialKeys == BracketKeys \ {"<keys>", "<C-w>", "<C-r>"}

InsertMode_handle(w, input) ==
  LET b      == w.b
      cursor == b.cursor
      line   == getLine(b, cursor.row)
      w2 ==
        CASE input \in {"<Esc>", "<C-c>", "<C-["} ->
               LET w1 == Editor_setMode(w, "normal", "null")
               IN  IF cursor.col > 0 /\ cursor.col >= getLineLength(b, cursor.row)
                   THEN [w1 EXCEPT !.b = moveCursor(w1.b, 0, -1)]
                   ELSE w1
          [] input = "<CR>" -> [w EXCEPT !.b = insert(b, <<"\n">>, <<>>)]
          [] input = "<Tab>" -> [w EXCEPT !.b = insert(b, <<"\t">>, <<>>)]
          [] input \in {"<BS>", "<C-h>"} -> [w EXCEPT !.b = insertBackspace(b)]
          [] input = "<Del>" -> [w EXCEPT !.b = delete(b, 1, <<>>)]
          [] input = "<C-k>" -> [w EXCEPT !.b = SetLine(b, cursor.row, Slice(line, 0, cursor.col))]
          [] input = "<C-u>" ->
               [w EXCEPT !.b = setCursor(SetLine(b, cursor.row, SliceFrom(line, cursor.col)),
                                         cursor.row, 0)]
          [] input = "<Up>" -> [w EXCEPT !.b = moveCursor(b, -1, 0)]
          [] input = "<Down>" -> [w EXCEPT !.b = moveCursor(b, 1, 0)]
          [] input = "<Left>" -> [w EXCEPT !.b = moveCursor(b, 0, -1)]
          [] input = "<Right>" -> [w EXCEPT !.b = moveCursor(b, 0, 1)]
          [] input = "<Home>" -> [w EXCEPT !.b = setCursor(b, cursor.row, 0)]
          [] input \in {"<End>", "<C-e>"} ->
               [w EXCEPT !.b = setCursor(b, cursor.row, getLineLength(b, cursor.row))]
          [] input = "<PageUp>" -> [w EXCEPT !.win = scroll(w.win, -(w.win.height - 2))]
          [] input = "<PageDown>" -> [w EXCEPT !.win = scroll(w.win, w.win.height - 2)]
          [] input = "<C-v>" -> w
          [] input = "<C-t>" ->
               [w EXCEPT !.b = moveCursor(SetLine(b, cursor.row, indent \o LineOrUndefined(b, cursor.row)),
                                          0, shiftwidth)]
          [] input = "<C-d>" ->
               IF startsWith(line, indent)
               THEN [w EXCEPT !.b = moveCursor(SetLine(b, cursor.row, SliceFrom(line, shiftwidth)),
                                               0, -shiftwidth)]
               ELSE w
          [] OTHER ->
               IF input \notin BracketKeys THEN [w EXCEPT !.b = insert(b, <<input>>, <<>>)] ELSE w
  IN  IF input \in BracketKeys \ InsertSpecialKeys THEN Handled(w, FALSE)
      ELSE IF w2.b.threw THEN w2
      ELSE Handled(w2, TRUE)

----------------------------------------------------------------------------
(* VisualMode (src/neovimjs/src/keymaps/VisualMode.js) *)

RECURSIVE VisualMode_findWordEndLoop(_, _, _, _, _)
VisualMode_findWordEndLoop(lines, currentRow, currentCol, found, count) ==
  IF ~(found < count /\ currentRow < Len(lines))
  THEN Pos(currentRow, currentCol)
  ELSE LET line == lines[currentRow + 1]
       IN  IF currentCol < Len(line) - 1
           THEN LET col      == currentCol + 1
                    prevChar == IF col > 0 THEN CharAt(line, col - 1) ELSE " "
                    currChar == CharAt(line, col)
                    hit      == \/ isWordChar(prevChar) /\ ~isWordChar(currChar)
                                \/ ~isWordChar(prevChar) /\ ~isWordChar(currChar)
                                     /\ isSpace(currChar)
                                \/ isSpace(prevChar) /\ ~isWordChar(currChar)
                                     /\ currChar # " "
                IN  IF hit
                    THEN IF found + 1 >= count
                         THEN Pos(currentRow, col)
                         ELSE VisualMode_findWordEndLoop(lines, currentRow, col, found + 1, count)
                    ELSE VisualMode_findWordEndLoop(lines, currentRow, col, found, count)
           ELSE VisualMode_findWordEndLoop(lines, currentRow + 1, 0, found, count)

VisualMode_findWordEnd(b, cursor, count) ==
  VisualMode_findWordEndLoop(b.lines, cursor.row, cursor.col, 0, count)

RECURSIVE VisualMode_findWordStartLoop(_, _, _, _, _)
VisualMode_findWordStartLoop(lines, currentRow, currentCol, found, count) ==
  IF ~(found < count /\ currentRow < Len(lines))
  THEN Pos(currentRow, currentCol)
  ELSE LET line == lines[currentRow + 1]
       IN  IF currentCol < Len(line) - 1
           THEN LET col      == currentCol + 1
                    prevChar == IF col > 0 THEN CharAt(line, col - 1) ELSE " "
                    currChar == CharAt(line, col)
                IN  IF isSpace(prevChar) /\ currChar # " "
                    THEN IF found + 1 >= count
                         THEN Pos(currentRow, col)
                         ELSE VisualMode_findWordStartLoop(lines, currentRow, col, found + 1, count)
                    ELSE VisualMode_findWordStartLoop(lines, currentRow, col, found, count)
           ELSE VisualMode_findWordStartLoop(lines, currentRow + 1, 0, found, count)

VisualMode_findWordStart(b, cursor, count) ==
  VisualMode_findWordStartLoop(b.lines, cursor.row, cursor.col, 0, count)

RECURSIVE VisualMode_findPrevWordStartLoop(_, _, _, _, _)
VisualMode_findPrevWordStartLoop(lines, currentRow, currentCol, found, count) ==
  IF ~(found < count /\ currentRow >= 0)
  THEN Pos(currentRow, currentCol)
  ELSE IF currentCol > 0
  THEN IF currentRow >= Len(lines) THEN PosThrown
       ELSE LET line     == lines[currentRow + 1]
                col      == currentCol - 1
                currChar == CharAt(line, col)
                nextChar == IF col < Len(line) - 1 THEN CharAt(line, col + 1) ELSE " "
            IN  IF currChar # " " /\ nextChar = " "
                THEN IF found + 1 >= count
                     THEN Pos(currentRow, col)
                     ELSE VisualMode_findPrevWordStartLoop(lines, currentRow, col, found + 1, count)
                ELSE VisualMode_findPrevWordStartLoop(lines, currentRow, col, found, count)
  ELSE IF currentRow - 1 >= 0
       THEN IF currentRow - 1 >= Len(lines) THEN PosThrown
            ELSE VisualMode_findPrevWordStartLoop(lines, currentRow - 1, Len(lines[currentRow]),
                                                  found, count)
       ELSE VisualMode_findPrevWordStartLoop(lines, currentRow - 1, currentCol, found, count)

VisualMode_findPrevWordStart(b, cursor, count) ==
  VisualMode_findPrevWordStartLoop(b.lines, cursor.row, cursor.col, 0, count)

VisualMode_reset(w) == [w EXCEPT !.v = [count |-> 0, operator |-> "null"]]

\* this.editor.setMode(mode); buffer.selection = null
leaveVisual(w, mode) == [Editor_setMode(w, mode, "null") EXCEPT !.b.selection = <<>>]

VisualMotionKeys == {"h", "j", "k", "l", "w", "b", "e", "0", "^", "$", "G", "gg", "%",
                     "<Esc>", "<C-c>"}

\* the switch of VisualMode.handleMotion
visualMotionCase(w, input) ==
  LET b      == w.b
      cursor == b.cursor
      count  == CountOr1(w.v.count)
      toPos(pos, col) == IF Threw(pos) THEN Raise(w)
                         ELSE [w EXCEPT !.b = setCursor(b, pos.row, col)]
  IN  CASE input = "h" -> [w EXCEPT !.b = moveCursor(b, 0, -count)]
        [] input = "j" -> [w EXCEPT !.b = moveCursor(b, count, 0)]
        [] input = "k" -> [w EXCEPT !.b = moveCursor(b, -count, 0)]
        [] input = "l" -> [w EXCEPT !.b = moveCursor(b, 0, count)]
        [] input = "w" ->
             LET pos == VisualMode_findWordStart(b, cursor, count) IN toPos(pos, pos.col)
        [] input = "b" ->
             LET pos == VisualMode_findPrevWordStart(b, cursor, count) IN toPos(pos, pos.col)
        [] input = "e" ->
             LET pos == VisualMode_findWordEnd(b, cursor, count)
             IN  toPos(pos, Max(0, pos.col - 1))
        [] input = "0" -> [w EXCEPT !.b = setCursor(b, cursor.row, 0)]
        [] input = "^" ->
             LET firstNonSpace == searchNonBlank(getLine(b, cursor.row))
             IN  [w EXCEPT !.b = setCursor(b, cursor.row,
                                           IF firstNonSpace = -1 THEN 0 ELSE firstNonSpace)]
        [] input = "$" ->
             [w EXCEPT !.b = setCursor(b, cursor.row, Max(0, getLineLength(b, cursor.row) - 1))]
        [] input = "G" ->
             [w EXCEPT !.b = setCursor(b, Min(getLineCount(b) - 1, Max(0, count - 1)), 0)]
        [] input = "gg" -> Raise(w)
        [] input \in {"<Esc>", "<C-c>"} -> leaveVisual(w, "normal")
        [] OTHER -> w

VisualMode_handleMotion(w, input) ==
  LET w2 == visualMotionCase(w, input)
      w3 == IF w2.b.selection # <<>>
            THEN [w2 EXCEPT !.b.selection.end = w2.b.cursor]
            ELSE w2
  IN  IF w.b.selection = <<>> THEN Handled(w, FALSE)
      ELSE IF input = "g" THEN Handled([w EXCEPT !.v.operator = "g"], TRUE)
      ELSE IF input \notin VisualMotionKeys THEN Handled(VisualMode_reset(w), FALSE)
      ELSE IF w2.b.threw THEN w2
      ELSE Handled(VisualMode_reset(w3), TRUE)

\* line.replace(/^ {1,4}/, '')
RECURSIVE leadingSpaces(_)
leadingSpaces(line) ==
  IF line # <<>> /\ Head(line) = " " THEN 1 + leadingSpaces(Tail(line)) ELSE 0
dedent(line) == SliceFrom(line, Min(leadingSpaces(line), 4))

Lower == <<"a", "b", "c", "d", "e", "f", "g", "h", "i", "j", "k", "l", "m",
           "n", "o", "p", "q", "r", "s", "t", "u", "v", "w", "x", "y", "z">>
Upper == <<"A", "B", "C", "D", "E", "F", "G", "H", "I", "J", "K", "L", "M",
           "N", "O", "P", "Q", "R", "S", "T", "U", "V", "W", "X", "Y", "Z">>
\* char === char.toUpperCase() ? char.toLowerCase() : char.toUpperCase()
toggleCase(char) ==
  IF \E i \in 1..26 : Lower[i] = char THEN Upper[CHOOSE i \in 1..26 : Lower[i] = char]
  ELSE IF \E i \in 1..26 : Upper[i] = char THEN Lower[CHOOSE i \in 1..26 : Upper[i] = char]
  ELSE char

\* for (i = sRow; i <= eRow; i++) buffer.lines[i] = f(i); a row is rewritten from its
\* own old value only, and a row never assigned reads as ''
eachRow(b, sRow, eRow, f(_, _)) ==
  [b EXCEPT !.lines = [i \in 1..Max(Len(b.lines), eRow + 1) |->
                         IF i - 1 >= sRow /\ i - 1 <= eRow THEN f(b, i - 1)
                         ELSE IF i <= Len(b.lines) THEN b.lines[i] ELSE <<>>]]

visualIndent(b, i) == indent \o LineOrUndefined(b, i)
visualDedent(b, i) ==
  IF startsWith(getLine(b, i), <<" ">>) THEN dedent(getLine(b, i)) ELSE getLine(b, i)

\* case 'd' of VisualMode.handleOperator; the loop of the multi-line branch leaves
\* lines[sRow] = (lines[sRow] + lines[eRow].slice(eCol + 1)).slice(0, sCol)
visualDelete(w, sRow, sCol, eRow, eCol) ==
  IF RangeThrows(w.b, sRow, eRow) THEN Raise(w)
  ELSE LET b    == w.b
           text == getRange(b, sRow, sCol, eRow, eCol)
           w1   == Editor_delete(w, text, "null")
           b2   == IF sRow = eRow
                   THEN SetLine(b, sRow, Slice(getLine(b, sRow), 0, sCol)
                                           \o SliceFrom(getLine(b, eRow), eCol + 1))
                   ELSE [b EXCEPT !.lines =
                           SubSeq(b.lines, 1, sRow)
                           \o <<Slice(b.lines[sRow + 1] \o SliceFrom(b.lines[eRow + 1], eCol + 1),
                                      0, sCol)>>
                           \o SubSeq(b.lines, eRow + 2, Len(b.lines))]
       IN  leaveVisual([w1 EXCEPT !.b = setCursor(b2, sRow,
                                                  Min(sCol, getLineLength(b2, sRow) - 1))],
                       "normal")

\* case 'y'
visualYank(w, start, sRow, sCol, eRow, eCol) ==
  IF RangeThrows(w.b, sRow, eRow) THEN Raise(w)
  ELSE LET w1 == leaveVisual(Editor_yank(w, getRange(w.b, sRow, sCol, eRow, eCol + 1), "null"),
                             "normal")
       IN  [w1 EXCEPT !.b = setCursor(w1.b, start.row, start.col)]

\* case 'c'
visualChange(w, sRow, sCol, eRow, eCol) ==
  IF RangeThrows(w.b, sRow, eRow) THEN Raise(w)
  ELSE LET b  == w.b
           w1 == Editor_delete(w, getRange(b, sRow, sCol, eRow, eCol), "null")
           b2 == IF sRow = eRow
                 THEN SetLine(b, sRow, Slice(getLine(b, sRow), 0, sCol)
                                         \o SliceFrom(getLine(b, eRow), eCol))
                 ELSE b
       IN  leaveVisual([w1 EXCEPT !.b = setCursor(b2, sRow, Min(sCol, getLineLength(b2, sRow)))],
                       "insert")

\* case '~': the characters of the selection change case
visualToggle(b, sRow, sCol, eRow, eCol, i) ==
  LET line     == getLine(b, i)
      startCol == IF i = sRow THEN sCol ELSE 0
      endCol   == IF i = eRow THEN eCol ELSE Len(line) - 1
  IN  [j \in 1..Len(line) |->
         IF j - 1 >= startCol /\ j - 1 <= endCol THEN toggleCase(line[j]) ELSE line[j]]

VisualMode_handleOperator(w) ==
  LET b     == w.b
      start == b.selection.start
      end   == b.selection.end
      sRow  == Min(start.row, end.row)
      sCol  == Min(start.col, end.col)
      eRow  == Max(start.row, end.row)
      eCol  == Max(start.col, end.col)
      toggle(bb, i) == visualToggle(bb, sRow, sCol, eRow, eCol, i)
      w2 == CASE w.v.operator \in {"d", "x"} -> visualDelete(w, sRow, sCol, eRow, eCol)
              [] w.v.operator = "y" -> visualYank(w, start, sRow, sCol, eRow, eCol)
              [] w.v.operator = "c" -> visualChange(w, sRow, sCol, eRow, eCol)
              [] w.v.operator = ">" ->
                   leaveVisual([w EXCEPT !.b = eachRow(b, sRow, eRow, visualIndent)], "normal")
              [] w.v.operator = "<" ->
                   leaveVisual([w EXCEPT !.b = eachRow(b, sRow, Min(eRow, Len(b.lines) - 1),
                                                      visualDedent)], "normal")
              [] w.v.operator = "~" ->
                   leaveVisual([w EXCEPT !.b = eachRow(b, sRow, eRow, toggle)], "normal")
              [] OTHER -> w
  IN  IF b.selection = <<>> THEN Handled(w, FALSE)
      ELSE IF start = <<>> \/ end = <<>> THEN Raise(w)
      ELSE IF w2.b.threw THEN w2
      ELSE Handled(VisualMode_reset(w2), TRUE)

VisualOperatorKeys == {"d", "y", "c", "p", ">", "<", "~"}

VisualMode_handle(w, input) ==
  IF w.b.selection = <<>> THEN Handled(w, FALSE)
  ELSE IF input \in DigitKeys \ {"0"} \/ (w.v.count > 0 /\ input \in DigitKeys)
  THEN Handled([w EXCEPT !.v.count = w.v.count * 10 + parseInt(input)], TRUE)
  ELSE IF input \in VisualOperatorKeys
  THEN VisualMode_handleOperator([w EXCEPT !.v.operator = input])
  ELSE VisualMode_handleMotion(w, input)

----------------------------------------------------------------------------
(* CommandMode (src/neovimjs/src/keymaps/CommandMode.js) *)

\* command.trim()
RECURSIVE trimStart(_)
trimStart(text) == IF text # <<>> /\ isSpace(Head(text)) THEN trimStart(Tail(text)) ELSE text
RECURSIVE trimEnd(_)
trimEnd(text) ==
  IF text # <<>> /\ isSpace(text[Len(text)]) THEN trimEnd(SubSeq(text, 1, Len(text) - 1))
  ELSE text
trim(text) == trimEnd(trimStart(text))

\* cmd.split(/\s+/)[0]
RECURSIVE firstWord(_)
firstWord(cmd) ==
  IF cmd = <<>> \/ isSpace(Head(cmd)) THEN <<>> ELSE <<Head(cmd)>> \o firstWord(Tail(cmd))

\* cmd.split(/\s+/).slice(1).join(' ')
RECURSIVE collapseSpaces(_)
collapseSpaces(text) ==
  IF text = <<>> THEN <<>>
  ELSE IF isSpace(Head(text)) THEN <<" ">> \o collapseSpaces(trimStart(text))
  ELSE <<Head(text)>> \o collapseSpaces(Tail(text))
argStrOf(cmd) == collapseSpaces(trimStart(SliceFrom(cmd, Len(firstWord(cmd)))))

\* this.editor.ui?.showMessage(text, level)
showMessage(w, text) == [w EXCEPT !.msg = text]

\* an exception inside the async execute() rejects its promise: the function stops where
\* it threw and nothing catches the rejection
Reject(w) == [w EXCEPT !.c.rejected = TRUE]

\* CommandMode.quit(): process.exit(0)
quit(w) == [w EXCEPT !.exit = TRUE]

\* the buffer object editor.buffers[index]; the current one is w.b
BufferAt(w, index) == IF index = w.e.current THEN w.b ELSE w.e.buffers[index + 1]
SetBufferAt(w, index, b) ==
  IF index = w.e.current THEN [w EXCEPT !.b = b] ELSE [w EXCEPT !.e.buffers[index + 1] = b]

\* Editor.createBuffer(content, options)
Editor_createBuffer(w, content, path) ==
  [w EXCEPT !.e.buffers = Append(w.e.buffers, [NewBuffer(content) EXCEPT !.path = path])]

\* Editor.setBuffer(buffer), with buffer = editor.buffers[index]
Editor_setBuffer(w, index) ==
  IF index = w.e.current THEN w
  ELSE [w EXCEPT !.e.buffers[w.e.current + 1] = w.b,
                 !.b = w.e.buffers[index + 1],
                 !.e.current = index]

\* CommandMode.nextBuffer / prevBuffer / gotoBuffer
nextBuffer(w) == Editor_setBuffer(w, (w.e.current + 1) % Len(w.e.buffers))
prevBuffer(w) == Editor_setBuffer(w, (w.e.current - 1 + Len(w.e.buffers)) % Len(w.e.buffers))
gotoBuffer(w, index) ==
  IF index >= 0 /\ index < Len(w.e.buffers) THEN Editor_setBuffer(w, index) ELSE w

\* pattern.match(/^\/(.*)\/(.*)\/(.*)$/): the positions of the three delimiting slashes
\* (the first character and, the groups being greedy, the last two slashes), or <<>>
slashes(pattern) == { i \in 1..Len(pattern) : pattern[i] = "/" }
lastSlash(pattern) == CHOOSE i \in slashes(pattern) : \A j \in slashes(pattern) : j <= i
substituteMatch(pattern) ==
  IF Len(pattern) >= 3 /\ pattern[1] = "/" /\ Cardinality(slashes(pattern)) >= 3
  THEN LET third  == lastSlash(pattern)
           second == lastSlash(SubSeq(pattern, 1, third - 1))
       IN  [ searchPattern |-> SubSeq(pattern, 2, second - 1),
             replacement   |-> SubSeq(pattern, second + 1, third - 1),
             flags         |-> SubSeq(pattern, third + 1, Len(pattern)) ]
  ELSE <<>>

\* new RegExp(searchPattern, flags): the patterns are sequences of literal characters
\* and of "(", which opens a group that nothing closes (SyntaxError)
RegExpThrows(searchPattern) == \E i \in 1..Len(searchPattern) : searchPattern[i] = "("

\* char.toLowerCase()
toLowerCase(char) ==
  IF \E i \in 1..26 : Upper[i] = char THEN Lower[CHOOSE i \in 1..26 : Upper[i] = char]
  ELSE char

\* the regex matches at the head of line
matchesAt(line, searchPattern, ignoreCase) ==
  /\ Len(line) >= Len(searchPattern)
  /\ \A i \in 1..Len(searchPattern) :
       IF ignoreCase THEN toLowerCase(line[i]) = toLowerCase(searchPattern[i])
       ELSE line[i] = searchPattern[i]

\* line.replace(regex, replacement) with the g flag
RECURSIVE replace(_, _, _, _)
replace(line, searchPattern, replacement, ignoreCase) ==
  IF searchPattern = <<>>
  THEN replacement \o (IF line = <<>> THEN <<>>
                       ELSE <<Head(line)>> \o replace(Tail(line), searchPattern, replacement,
                                                      ignoreCase))
  ELSE IF line = <<>> THEN <<>>
  ELSE IF matchesAt(line, searchPattern, ignoreCase)
  THEN replacement \o replace(SliceFrom(line, Len(searchPattern)), searchPattern, replacement,
                              ignoreCase)
  ELSE <<Head(line)>> \o replace(Tail(line), searchPattern, replacement, ignoreCase)

\* CommandMode.substitute(pattern, global); count is the number of lines changed
substitute(w, pattern, global) ==
  LET match      == substituteMatch(pattern)
      buffer_    == w.b
      ignoreCase == \E i \in 1..Len(match.flags) : match.flags[i] = "i"
      newLine(line) == replace(line, match.searchPattern, match.replacement, ignoreCase)
      row        == buffer_.cursor.row
      rows       == IF global THEN 0..(Len(buffer_.lines) - 1) ELSE {row}
      changed    == { i \in rows : newLine(buffer_.lines[i + 1]) # buffer_.lines[i + 1] }
      count      == Cardinality(changed)
      lines      == [ i \in 1..Len(buffer_.lines) |->
                        IF (i - 1) \in changed THEN newLine(buffer_.lines[i])
                        ELSE buffer_.lines[i] ]
  IN  IF match = <<>> THEN showMessage(w, "Invalid substitute pattern")
      ELSE IF RegExpThrows(match.searchPattern) THEN Reject(w)
      ELSE IF ~global /\ ~HasLine(buffer_, row) THEN Reject(w)
      ELSE IF count > 0
      THEN showMessage([w EXCEPT !.b.lines = lines, !.b.modified = TRUE],
                       ToString(count) \o " substitution(s)")
      ELSE showMessage(w, "No match found")

\* await this.writeFile(path) / await this.editFile(path): the call runs up to its
\* `await import('fs')` and the rest of execute() is resumed later; writeFile has read
\* the current buffer before it suspends
Suspend(w, kind, path) ==
  [w EXCEPT !.c.pending = Append(w.c.pending,
                                 [kind |-> kind, path |-> path, buffer |-> w.e.current])]

\* parseInt(argStr, 10) of a buffer number: one decimal digit, or NaN (-1)
bufferNumber(argStr) ==
  IF Len(argStr) = 1 /\ argStr[1] \in DigitKeys THEN parseInt(argStr[1]) ELSE -1

\* the tail of execute(): this.editor.setMode('normal'); return true
executeTail(w) == Handled(Editor_setMode(w, "normal", "null"), TRUE)

\* execute() after this.substitute(argStr): an exception of substitute ends it
substituted(w) == IF w.c.rejected THEN Handled(w, TRUE) ELSE executeTail(w)

WriteNames == { <<"w">>, <<"w", "r", "i", "t", "e">> }
WriteQuitNames == { <<"w", "q">>, <<"x">>, <<"x", "i", "t">>, <<"x", "!">> }
EditNames == { <<"e">>, <<"e", "d", "i", "t">> }
NoOpNames == { <<"o", "n", "l", "y">>, <<"o", "n">>, <<"w", "i", "n", "c", "m", "d">>,
               <<"n", "o", "h", "l">>, <<"n", "o", "h", "l", "s", "e", "a", "r", "c", "h">> }

\* CommandMode.execute(command) up to its first await; the cases of the switch on
\* windows, tabs, options and the shell (split, close, tabnew, set, !, sh, ls) are not
\* modelled and their names are never typed
CommandMode_execute(w, command) ==
  LET cmd     == trim(command)
      w1      == [w EXCEPT !.c.commandBuffer = <<>>]
      cmdName == firstWord(cmd)
      argStr  == argStrOf(cmd)
  IN  IF cmd = <<>> THEN executeTail(w1)
      ELSE CASE cmdName \in WriteNames -> Handled(Suspend(w1, "write", argStr), TRUE)
             [] cmdName = <<"w", "q">> -> Handled(Suspend(w1, "writeQuit", argStr), TRUE)
             [] cmdName \in WriteQuitNames \ {<<"w", "q">>} ->
                  Handled(Suspend(w1, "writeQuit", <<>>), TRUE)
             [] cmdName = <<"q">> ->
                  IF argStr = <<"!">> THEN quit(w1)
                  ELSE IF w1.b.modified
                  THEN Handled(showMessage(w1, "No write since last change"), TRUE)
                  ELSE quit(w1)
             [] cmdName \in { <<"q", "a">>, <<"q", "a", "l", "l">> } -> quit(w1)
             [] cmdName \in EditNames ->
                  IF argStr # <<>> THEN Handled(Suspend(w1, "edit", argStr), TRUE)
                  ELSE executeTail(w1)
             [] cmdName = <<"e", "n", "e", "w">> ->
                  executeTail(Editor_createBuffer(w1, <<>>, <<>>))
             [] cmdName \in { <<"b", "n">>, <<"b", "n", "e", "x", "t">> } ->
                  executeTail(nextBuffer(w1))
             [] cmdName \in { <<"b", "p">>, <<"b", "p", "r", "e", "v", "i", "o", "u", "s">> } ->
                  executeTail(prevBuffer(w1))
             [] cmdName = <<"b">> ->
                  IF argStr # <<>> /\ bufferNumber(argStr) # -1
                  THEN executeTail(gotoBuffer(w1, bufferNumber(argStr) - 1))
                  ELSE executeTail(w1)
             [] cmdName \in NoOpNames -> executeTail(w1)
             [] cmdName \in { <<"s">>, <<"s", "u", "b", "s", "t", "i", "t", "u", "t", "e">> } ->
                  substituted(substitute(w1, argStr, FALSE))
             [] cmdName = <<"%", "s">> ->
                  substituted(substitute(w1, argStr, TRUE))
             [] cmdName \in { <<"u">>, <<"u", "n", "d", "o">> } ->
                  executeTail([w1 EXCEPT !.b = undo(w1.b)])
             [] cmdName \in { <<"r", "e", "d">>, <<"r", "e", "d", "o">> } ->
                  executeTail([w1 EXCEPT !.b = redo(w1.b)])
             [] cmdName = <<"h", "e", "l", "p">> ->
                  executeTail(showMessage(w1, "Help: Not implemented yet"))
             [] cmdName = <<"v", "e", "r", "s", "i", "o", "n">> ->
                  executeTail(showMessage(w1, "NeovimJS v0.1.0"))
             [] OTHER -> executeTail(showMessage(w1, "Not an editor command"))

\* writeFile clearing the modified flag although the write failed
writeFile_clearsModified(w, pending, written) ==
  LET buffer_    == BufferAt(w, pending.buffer)
      targetPath == IF pending.path # <<>> THEN pending.path ELSE buffer_.path
  IN  IF targetPath = <<>> THEN showMessage(w, "No file name")
      ELSE showMessage(SetBufferAt(w, pending.buffer,
                                   [buffer_ EXCEPT !.path = targetPath, !.modified = FALSE]),
                       IF written THEN "written" ELSE "Error writing file")

\* the rest of writeFile(path) after its await; written: fs.writeFileSync succeeded
writeFile(w, pending, written) ==
  LET buffer_    == BufferAt(w, pending.buffer)
      targetPath == IF pending.path # <<>> THEN pending.path ELSE buffer_.path
  IN  IF targetPath = <<>> THEN showMessage(w, "No file name")
      ELSE IF written
      THEN showMessage(SetBufferAt(w, pending.buffer,
                                   [buffer_ EXCEPT !.path = targetPath, !.modified = FALSE]),
                       "written")
      ELSE showMessage(w, "Error writing file")

\* the rest of editFile(path) after its await; fsOk: fs.readFileSync returned content
editFile(w, pending, fsOk, content) ==
  IF ~fsOk THEN showMessage(w, "Error reading file")
  ELSE LET w1 == Editor_createBuffer(w, content, pending.path)
       IN  Editor_setBuffer(w1, Len(w1.e.buffers) - 1)

\* execute() resumed after the await of its oldest suspended call
CommandMode_resume(w, fsOk, content) ==
  LET pending == Head(w.c.pending)
      w1      == [w EXCEPT !.c.pending = Tail(w.c.pending)]
  IN  CASE pending.kind = "write" -> executeTail(writeFile(w1, pending, fsOk))
        [] pending.kind = "writeQuit" -> quit(writeFile(w1, pending, fsOk))
        [] OTHER -> executeTail(editFile(w1, pending, fsOk, content))

CommandMode_handle(w, input) ==
  CASE input = "<CR>" -> CommandMode_execute(w, w.c.commandBuffer)
    [] input \in {"<Esc>", "<C-c>"} ->
         Handled([Editor_setMode(w, "normal", "null") EXCEPT !.c.commandBuffer = <<>>], TRUE)
    [] input = "<BS>" ->
         Handled([w EXCEPT !.c.commandBuffer = Slice(w.c.commandBuffer, 0, -1)], TRUE)
    [] OTHER ->
         IF input \notin BracketKeys
         THEN Handled([w EXCEPT !.c.commandBuffer = w.c.commandBuffer \o <<input>>], TRUE)
         ELSE Handled(w, TRUE)

----------------------------------------------------------------------------
(* Keymap (src/neovimjs/src/keymaps/Keymap.js): the entry list of mode 'n' *)

KeymapEntry(lhs, rhs) == [lhs |-> lhs, rhs |-> rhs, mode |-> "n"]

\* KeymapEntry.match(input, currentMode): "complete", "partial" or null
KeymapEntry_match(entry, input, currentMode) ==
  IF entry.mode = currentMode /\ startsWith(input, entry.lhs)
  THEN IF input = entry.lhs THEN "complete" ELSE "partial"
  ELSE "null"

\* modeKeymaps.findIndex(e => e.lhs === lhs), 0-based, or -1
findIndex(modeKeymaps, lhs) ==
  IF \E i \in 1..Len(modeKeymaps) : modeKeymaps[i].lhs = lhs
  THEN (CHOOSE i \in 1..Len(modeKeymaps) :
          /\ modeKeymaps[i].lhs = lhs
          /\ \A j \in 1..(i - 1) : modeKeymaps[j].lhs # lhs) - 1
  ELSE -1

\* modeKeymaps.sort((a, b) => b.lhs.length - a.lhs.length): stable, longest first
RECURSIVE byLength(_, _)
byLength(modeKeymaps, len) ==
  IF len < 0 THEN <<>>
  ELSE SelectSeq(modeKeymaps, LAMBDA e : Len(e.lhs) = len) \o byLength(modeKeymaps, len - 1)
RECURSIVE longest(_)
longest(modeKeymaps) ==
  IF modeKeymaps = <<>> THEN 0
  ELSE Max(Len(Head(modeKeymaps).lhs), longest(Tail(modeKeymaps)))
sortLongestFirst(modeKeymaps) == byLength(modeKeymaps, longest(modeKeymaps))

\* set pushing the entry without looking for an existing one
Keymap_set_push(modeKeymaps, lhs, rhs) ==
  sortLongestFirst(Append(modeKeymaps, KeymapEntry(lhs, rhs)))

Keymap_set(modeKeymaps, lhs, rhs) ==
  LET existingIndex == findIndex(modeKeymaps, lhs)
  IN  sortLongestFirst(IF existingIndex # -1
                       THEN [modeKeymaps EXCEPT ![existingIndex + 1] = KeymapEntry(lhs, rhs)]
                       ELSE Append(modeKeymaps, KeymapEntry(lhs, rhs)))

Keymap_del(modeKeymaps, lhs) ==
  IF findIndex(modeKeymaps, lhs) # -1
  THEN RemoveAt(modeKeymaps, findIndex(modeKeymaps, lhs))
  ELSE modeKeymaps

\* the null of completeMatch and partialMatch
NoEntry == [lhs |-> <<>>, rhs |-> "null", mode |-> "null"]

\* Keymap.get(lhs): modeKeymaps.find(e => e.lhs === lhs)
Keymap_get(modeKeymaps, lhs) ==
  IF findIndex(modeKeymaps, lhs) # -1 THEN modeKeymaps[findIndex(modeKeymaps, lhs) + 1]
  ELSE NoEntry

\* the last entry of the list whose match result is kind, or null
RECURSIVE lastMatch(_, _, _)
lastMatch(modeKeymaps, input, kind) ==
  IF modeKeymaps = <<>> THEN NoEntry
  ELSE IF KeymapEntry_match(modeKeymaps[Len(modeKeymaps)], input, "n") = kind
  THEN modeKeymaps[Len(modeKeymaps)]
  ELSE lastMatch(SubSeq(modeKeymaps, 1, Len(modeKeymaps) - 1), input, kind)

Keymap_match(modeKeymaps, input) ==
  LET completeMatch == lastMatch(modeKeymaps, input, "complete")
      partialMatch  == lastMatch(modeKeymaps, input, "partial")
  IN  [ complete    |-> completeMatch,
        partial     |-> partialMatch,
        isAmbiguous |-> completeMatch # NoEntry /\ partialMatch # NoEntry ]

----------------------------------------------------------------------------
(* Screen and Window (src/neovimjs/src/plugins/PluginManager.js) *)

\* Window.ensureCursorVisible(cursor), widthOffset = 0
ensureCursorVisible(win, cursor) ==
  LET topLine    == win.scrollLine
      bottomLine == win.scrollLine + win.height - 1
      leftCol    == win.scrollCol
      rightCol   == win.scrollCol + win.width - 1
      line == IF cursor.row < topLine THEN cursor.row
              ELSE IF cursor.row > bottomLine - 2 THEN cursor.row - win.height + 3
              ELSE win.scrollLine
      col  == IF cursor.col < leftCol THEN cursor.col
              ELSE IF cursor.col > rightCol - 5 THEN cursor.col - win.width + 6
              ELSE win.scrollCol
  IN  [win EXCEPT !.scrollLine = Max(0, line), !.scrollCol = Max(0, col)]

\* Screen.render(): renderEditor scrolls the window to the cursor, renderCmdline resets
\* the command line to ':' while in Command mode
render(w) ==
  [w EXCEPT !.win = ensureCursorVisible(w.win, w.b.cursor),
            !.cmdline = IF w.e.mode = "command" THEN <<":">> ELSE w.cmdline]

\* the inputBuffer as the string handed to a handler
InputOf(inputBuffer) == IF Len(inputBuffer) = 1 THEN inputBuffer[1] ELSE "<keys>"

\* this.cmdline.setValue(':' + this.commandMode.commandBuffer)
setValue(w) == [w EXCEPT !.cmdline = <<":">> \o w.c.commandBuffer]

\* Screen.processInput(input); w.ret is its result, w.sent logs the inputBuffer whose
\* string a mode handler received
processInput(w, input) ==
  LET mode == w.e.mode
      sent == [w EXCEPT !.sent = Append(w.sent, w.inputBuffer)]
  IN  CASE mode = "normal" -> Handled(NormalMode_handle(sent, input), TRUE)
        [] mode = "visual" -> Handled(VisualMode_handle(sent, input), TRUE)
        [] mode = "insert" ->
             IF input \notin BracketKeys \/ input \in {"<CR>", "<Tab>", "<BS>"}
             THEN Handled(InsertMode_handle(sent, input), TRUE)
             ELSE Handled(w, TRUE)
        [] mode = "command" ->
             IF input = "<CR>"
             THEN Handled(Editor_setMode(CommandMode_execute(w, w.cmdline), "normal", "null"),
                          TRUE)
             ELSE IF input \in {"<Esc>", "<C-c>"}
             THEN Handled(Editor_setMode(w, "normal", "null"), TRUE)
             ELSE IF input \notin BracketKeys \/ input = "<BS>"
             THEN Handled(setValue(CommandMode_handle(sent, input)), TRUE)
             ELSE Handled(w, TRUE)
        [] OTHER -> Handled(w, FALSE)

\* the end of handleKeyPress, w being the world processInput left: if (handled) the
\* inputBuffer and the timer are cleared and the screen is rendered
inputHandled(w) ==
  IF w.b.threw THEN w
  ELSE IF w.ret THEN render([w EXCEPT !.inputBuffer = <<>>, !.timer = FALSE])
  ELSE w

\* Screen.handleKeyPress(ch, key), with the key already named as its key string;
\* w.timer: a timeout is pending; w.exit: quit() ended the process
handleKeyPress(w, keyStr) ==
  IF keyStr = "<Esc>"
  THEN render([(IF w.e.mode = "insert" THEN Editor_setMode(w, "normal", "null") ELSE w)
                 EXCEPT !.inputBuffer = <<>>])
  ELSE IF keyStr = "<C-c>"
  THEN IF w.e.mode # "insert" THEN [w EXCEPT !.exit = TRUE] ELSE w
  ELSE LET w1 == [w EXCEPT !.inputBuffer = Append(w.inputBuffer, keyStr), !.timer = TRUE]
       IN  inputHandled(processInput(w1, InputOf(w1.inputBuffer)))

\* the callback of inputTimeout
timeoutHandled(w) == IF w.b.threw THEN w ELSE render([w EXCEPT !.inputBuffer = <<>>])
inputTimeoutFired(w) ==
  timeoutHandled(processInput([w EXCEPT !.timer = FALSE], InputOf(w.inputBuffer)))

----------------------------------------------------------------------------
(* Window (src/neovimjs/src/plugins/PluginManager.js), Tab and TabManager          *)
(* (src/neovimjs/src/core/Tab.js).  A Window object is its index in l.windows, 0 *)
(* is null; a buffer object is a number, a clone is a new number.                *)

\* new Window(): options.height || 24, options.width || 80
WindowHeight == 24
WindowWidth == 80
\* this.splitRatio = 0.5: Math.floor(x * this.splitRatio) is x \div 2
splitDivisor == 2

\* new Window({ buffer, parent, focus })
NewWindow(buffer_, parent, focus) ==
  [ buffer |-> buffer_, parent |-> parent, row |-> 0, col |-> 0,
    height |-> WindowHeight, width |-> WindowWidth, scrollLine |-> 0, scrollCol |-> 0,
    children |-> <<>>, splitType |-> "null", focus |-> focus, valid |-> TRUE ]

RECURSIVE updateChildren(_, _)
\* Window.setSize(height, width), Window.setPosition(row, col) on the windows ws
Window_setSize(ws, id, height, width) ==
  updateChildren([ws EXCEPT ![id].height = height, ![id].width = width], id)
Window_setPosition(ws, id, row, col) ==
  updateChildren([ws EXCEPT ![id].row = row, ![id].col = col], id)

\* updateChildren placing the second child at the position of the parent
updateChildren_samePosition(ws, id) ==
  IF Len(ws[id].children) # 2 THEN ws
  ELSE IF ws[id].splitType = "horizontal"
  THEN Window_setSize(
         Window_setPosition(
           Window_setSize(
             Window_setPosition(ws, ws[id].children[1], ws[id].row, ws[id].col),
             ws[id].children[1], ws[id].height \div splitDivisor, ws[id].width),
           ws[id].children[2], ws[id].row, ws[id].col),
         ws[id].children[2], ws[id].height - (ws[id].height \div splitDivisor), ws[id].width)
  ELSE Window_setSize(
         Window_setPosition(
           Window_setSize(
             Window_setPosition(ws, ws[id].children[1], ws[id].row, ws[id].col),
             ws[id].children[1], ws[id].height, ws[id].width \div splitDivisor),
           ws[id].children[2], ws[id].row, ws[id].col),
         ws[id].children[2], ws[id].height, ws[id].width - (ws[id].width \div splitDivisor))

\* Window.updateChildren(); Math.floor(x * this.splitRatio) is x \div 2
updateChildren(ws, id) ==
  IF Len(ws[id].children) # 2 THEN ws
  ELSE IF ws[id].splitType = "horizontal"
  THEN Window_setSize(
         Window_setPosition(
           Window_setSize(
             Window_setPosition(ws, ws[id].children[1], ws[id].row, ws[id].col),
             ws[id].children[1], ws[id].height \div splitDivisor, ws[id].width),
           ws[id].children[2], ws[id].row + (ws[id].height \div splitDivisor), ws[id].col),
         ws[id].children[2], ws[id].height - (ws[id].height \div splitDivisor), ws[id].width)
  ELSE Window_setSize(
         Window_setPosition(
           Window_setSize(
             Window_setPosition(ws, ws[id].children[1], ws[id].row, ws[id].col),
             ws[id].children[1], ws[id].height, ws[id].width \div splitDivisor),
           ws[id].children[2], ws[id].row, ws[id].col + (ws[id].width \div splitDivisor)),
         ws[id].children[2], ws[id].height, ws[id].width - (ws[id].width \div splitDivisor))

\* Window.split(direction); l.ret: the result is not null
Window_split(l, id, direction) ==
  IF Len(l.windows[id].children) > 0 THEN [l EXCEPT !.ret = FALSE]
  ELSE [l EXCEPT
          !.windows = updateChildren(
             [ l.windows \o << NewWindow(l.windows[id].buffer, id, TRUE),
                               NewWindow(l.buffers + 1, id, FALSE) >>
                 EXCEPT ![id].splitType = direction,
                        ![id].children = <<Len(l.windows) + 1, Len(l.windows) + 2>> ],
             id),
          !.buffers = l.buffers + 1,
          !.ret = TRUE]

\* Array.prototype.indexOf, 0-indexed, -1 when absent
indexOf(list, x) ==
  IF \E i \in 1..Len(list) : list[i] = x
  THEN (CHOOSE i \in 1..Len(list) : list[i] = x /\ \A j \in 1..(i - 1) : list[j] # x) - 1
  ELSE -1

\* the merge without the reset of the children of the parent
mergeInto_keepChildren(ws, p) ==
  IF Len(ws[p].children) = 1
  THEN [ws EXCEPT ![p].buffer = ws[ws[p].children[1]].buffer]
  ELSE ws

\* the merge of Window.close(): the parent p, left with one child, takes its buffer
mergeInto(ws, p) ==
  IF Len(ws[p].children) = 1
  THEN [ws EXCEPT ![p].buffer = ws[ws[p].children[1]].buffer,
                  ![p].children = <<>>,
                  ![p].splitType = "null"]
  ELSE ws

\* Window.close()
Window_close(ws, id) ==
  IF ws[id].parent # 0 /\ indexOf(ws[ws[id].parent].children, id) # -1
  THEN [ mergeInto([ws EXCEPT ![ws[id].parent].children =
                                 RemoveAt(ws[ws[id].parent].children,
                                          indexOf(ws[ws[id].parent].children, id))],
                   ws[id].parent)
           EXCEPT ![id].valid = FALSE ]
  ELSE [ws EXCEPT ![id].valid = FALSE]

\* new Tab({ buffer }): one window on the buffer
NewTab(firstWindow) == [windows |-> <<firstWindow>>, activeWindowIndex |-> 0]

\* TabManager.getActiveTab() (1-indexed position in l.tabs, 0 is null) and
\* Tab.getActiveWindow()
getActiveTab(l) == IF l.activeTabIndex < Len(l.tabs) THEN l.activeTabIndex + 1 ELSE 0
getActiveWindow(l, t) ==
  IF l.tabs[t].activeWindowIndex < Len(l.tabs[t].windows)
  THEN l.tabs[t].windows[l.tabs[t].activeWindowIndex + 1]
  ELSE 0

\* Tab.addWindow(buffer)
Tab_addWindow(l, t) ==
  [l EXCEPT !.windows = Append(l.windows, NewWindow(l.buffers + 1, 0, FALSE)),
            !.buffers = l.buffers + 1,
            !.tabs[t].windows = Append(l.tabs[t].windows, Len(l.windows) + 1),
            !.ret = TRUE]

\* windows.forEach((w, i) => w.setFocus(i === index))
focusOnly(ws, list, index) ==
  [id \in DOMAIN ws |->
     IF \E i \in 1..Len(list) : list[i] = id
     THEN [ws[id] EXCEPT !.focus = (indexOf(list, id) = index)]
     ELSE ws[id]]

\* Tab.setActiveWindow(index)
Tab_setActiveWindow(l, t, index) ==
  IF index >= 0 /\ index < Len(l.tabs[t].windows)
  THEN [l EXCEPT !.windows = focusOnly(l.windows, l.tabs[t].windows, index),
                 !.tabs[t].activeWindowIndex = index,
                 !.ret = TRUE]
  ELSE [l EXCEPT !.ret = FALSE]

\* the end of Tab.closeWindow: the active index is brought back into the list and the
\* active window focused
refocus(l, t) ==
  [l EXCEPT !.tabs[t].activeWindowIndex =
              Min(l.tabs[t].activeWindowIndex, Len(l.tabs[t].windows) - 1),
            !.windows[l.tabs[t].windows[Min(l.tabs[t].activeWindowIndex,
                                            Len(l.tabs[t].windows) - 1) + 1]].focus = TRUE,
            !.ret = TRUE]

\* closeWindow accepting the call on the last window
Tab_closeWindow_accepted(l, t, index) ==
  IF Len(l.tabs[t].windows) <= 1 THEN [l EXCEPT !.ret = TRUE]
  ELSE refocus(
         [l EXCEPT !.windows =
                      Window_close(l.windows,
                                   l.tabs[t].windows[SpliceIdx(Len(l.tabs[t].windows), index) + 1]),
                   !.tabs[t].windows = RemoveAt(l.tabs[t].windows, index)],
         t)

\* Tab.closeWindow(index); splice(index, 1) of an index past the end removes nothing and
\* closed.close() then reads a property of undefined (l.threw)
Tab_closeWindow(l, t, index) ==
  IF Len(l.tabs[t].windows) <= 1 THEN [l EXCEPT !.ret = FALSE]
  ELSE IF SpliceIdx(Len(l.tabs[t].windows), index) >= Len(l.tabs[t].windows)
  THEN [l EXCEPT !.threw = TRUE]
  ELSE refocus(
         [l EXCEPT !.windows =
                      Window_close(l.windows,
                                   l.tabs[t].windows[SpliceIdx(Len(l.tabs[t].windows), index) + 1]),
                   !.tabs[t].windows =
                      RemoveAt(l.tabs[t].windows, index)],
         t)

\* Tab.splitWindow(direction, buffer); rebuildWindowList() changes nothing
Tab_splitWindow(l, t, direction) ==
  IF getActiveWindow(l, t) = 0 THEN [l EXCEPT !.ret = FALSE]
  ELSE Window_split(l, getActiveWindow(l, t), direction)

\* Editor.splitWindow(direction): the clone of the current buffer it passes is not used
Editor_splitWindow(l, direction) ==
  IF getActiveTab(l) = 0 THEN [l EXCEPT !.ret = FALSE]
  ELSE Tab_splitWindow([l EXCEPT !.buffers = l.buffers + 1], getActiveTab(l), direction)

\* Editor.closeWindow()
Editor_closeWindow(l) ==
  IF getActiveTab(l) # 0 /\ getActiveWindow(l, getActiveTab(l)) # 0
  THEN Tab_closeWindow(l, getActiveTab(l),
                       indexOf(l.tabs[getActiveTab(l)].windows,
                               getActiveWindow(l, getActiveTab(l))))
  ELSE [l EXCEPT !.ret = FALSE]

\* TabManager.setActiveTab(index)
setActiveTab(l, index) ==
  IF index >= 0 /\ index < Len(l.tabs)
  THEN [l EXCEPT !.activeTabIndex = index, !.ret = TRUE]
  ELSE [l EXCEPT !.ret = FALSE]

\* Editor.newTab(): createBuffer and TabManager.addTab({ buffer })
Editor_newTab(l) ==
  setActiveTab(
    [l EXCEPT !.windows = Append(l.windows, NewWindow(l.buffers + 1, 0, TRUE)),
              !.buffers = l.buffers + 1,
              !.tabs = Append(l.tabs, NewTab(Len(l.windows) + 1))],
    Len(l.tabs))

\* TabManager.closeTab(index)
closeTab(l, index) ==
  IF Len(l.tabs) <= 1 THEN [l EXCEPT !.ret = FALSE]
  ELSE [l EXCEPT !.tabs = RemoveAt(l.tabs, index),
                 !.activeTabIndex =
                    IF l.activeTabIndex >= Len(RemoveAt(l.tabs, index))
                    THEN Len(RemoveAt(l.tabs, index)) - 1
                    ELSE l.activeTabIndex,
                 !.ret = TRUE]

\* Editor.init(): the [No Name] buffer in the window of the first tab
InitLayout ==
  [ windows |-> <<NewWindow(1, 0, TRUE)>>, buffers |-> 1,
    tabs |-> <<NewTab(1)>>, activeTabIndex |-> 0, ret |-> TRUE, threw |-> FALSE ]

----------------------------------------------------------------------------
(* Initial states *)

\* file contents the first buffer is created from ('' is the [No Name] buffer)
InitialContents ==
  { <<>>,
    <<"a", "b">>,
    <<"a", "b", "\n", "c">>,
    <<"a", "\n", "b", "\n", "c", "d">> }

Snapshot(b) == [lines |-> b.lines, cursor |-> b.cursor]

\* the path of the file the editor was started on
FilePath == <<"f">>

InitEditor ==
  [ mode       |-> "normal",
    visualMode |-> "null",
    registers  |-> [r \in {"default", "0", "1", "2", "3", "4", "5", "6", "7", "8", "9"} |-> <<>>],
    \* Editor.init(): the [No Name] buffer is the buffer of the first window
    buffers    |-> <<NewBuffer(<<>>)>>,
    current    |-> 0 ]

InitNormalMode == [count |-> 0, register |-> "null", operator |-> "null", operatorPending |-> FALSE]
InitVisualMode == [count |-> 0, operator |-> "null"]
\* pending: the calls of execute() suspended at an await; rejected: one of them threw
InitCommandMode == [commandBuffer |-> <<>>, pending |-> <<>>, rejected |-> FALSE]
\* inputTimeout: a timer is pending; dispatched: the inputs handed to a mode handler
InitScreen == [inputBuffer |-> <<>>, inputTimeout |-> FALSE, cmdline |-> <<>>,
               message |-> "null", process |-> "running", dispatched |-> <<>>]
InitWindow == [scrollLine |-> 0, scrollCol |-> 0, height |-> WindowHeight, width |-> WindowWidth]

InitObs(b) ==
  [ op |-> "new", prev |-> "new", prev2 |-> "new", ret |-> TRUE, n |-> 0,
    before |-> Snapshot(b), after |-> Snapshot(b), undos |-> 0, undoSinceEdit |-> FALSE,
    initial |-> b.lines, keys |-> <<>>, command |-> <<>>, modeBefore |-> "normal",
    target |-> 0, threw |-> FALSE, fsOk |-> TRUE, rhs |-> "null",
    arg |-> <<0, 0>> ]

\* NeovimJS.openFile(filePath): createBuffer(content, { path }) and setBuffer of it;
\* content '' stands for a start without a file, on the [No Name] buffer
openFile(e, content) ==
  IF content = <<>> THEN e
  ELSE [e EXCEPT !.buffers = Append(e.buffers, [NewBuffer(content) EXCEPT !.path = FilePath]),
                 !.current = Len(e.buffers)]

InitObjects(contents) ==
  /\ \E content \in contents :
       /\ buffer = [NewBuffer(content) EXCEPT !.path = IF content = <<>> THEN <<>> ELSE FilePath]
       /\ obs = InitObs(NewBuffer(content))
       /\ editor = openFile(InitEditor, content)
  /\ normalMode = InitNormalMode
  /\ visualMode = InitVisualMode
  /\ commandMode = InitCommandMode
  /\ screen = InitScreen
  /\ window = InitWindow
  /\ layout = InitLayout

\* new Keymap(): no entry
InitWith(contents) == InitObjects(contents) /\ keymap = <<>>

----------------------------------------------------------------------------
(* SpecBuf: the TextBuffer API called directly by a host *)

InsertTexts == { <<"x">>, <<"x", "\n", "y">> }
LineTexts == { <<"z">> }
\* explicit positions and rows are taken inside the buffer; null is the cursor
Positions(b) == { <<>>, [row |-> 0, col |-> 0],
                  [row |-> Len(b.lines) - 1, col |-> Len(b.lines[Len(b.lines)])] }
Rows(b) == { 0, Len(b.lines) - 1 }
\* setCursor arguments: below, inside and beyond the buffer
CursorArgs == { <<-1, -1>>, <<0, 7>>, <<1, 1>>, <<7, 0>> }

Called(b) == [b EXCEPT !.threw = FALSE]

\* a mutating call M on B = buffer, giving b2 = apply(B, M)
Mutation(name, b2) ==
  /\ obs.n < MaxOps
  /\ buffer' = b2
  /\ obs' = [obs EXCEPT !.op = name, !.prev = obs.op, !.prev2 = obs.prev, !.ret = TRUE,
                        !.n = obs.n + 1, !.before = Snapshot(buffer), !.after = Snapshot(b2),
                        !.undoSinceEdit = FALSE, !.arg = <<0, 0>>]
  /\ UNCHANGED <<editor, normalMode, visualMode, commandMode, screen, window, layout, keymap>>

Insert == \E text \in InsertTexts : \E pos \in Positions(buffer) :
            Mutation("insert", insert(Called(buffer), text, pos))
Delete == \E length \in {1} : \E pos \in Positions(buffer) :
            Mutation("delete", delete(Called(buffer), length, pos))
DeleteLine == \E row \in Rows(buffer) :
            Mutation("deleteLine", deleteLine(Called(buffer), row))
ReplaceLine == \E row \in Rows(buffer) : \E text \in LineTexts :
            Mutation("replaceLine", replaceLine(Called(buffer), row, text))
AppendLine == \E row \in Rows(buffer) : \E text \in LineTexts :
            Mutation("appendLine", appendLine(Called(buffer), row, text))
Clear == Mutation("clear", clear(Called(buffer)))

Undo ==
  /\ obs.n < MaxOps
  /\ buffer' = undo(Called(buffer))
  /\ obs' = [obs EXCEPT !.op = "undo", !.prev = obs.op, !.prev2 = obs.prev,
                        !.ret = canUndo(buffer), !.n = obs.n + 1,
                        !.undos = obs.undos + 1, !.undoSinceEdit = TRUE, !.arg = <<0, 0>>]
  /\ UNCHANGED <<editor, normalMode, visualMode, commandMode, screen, window, layout, keymap>>

Redo ==
  /\ obs.n < MaxOps
  /\ buffer' = redo(Called(buffer))
  /\ obs' = [obs EXCEPT !.op = "redo", !.prev = obs.op, !.prev2 = obs.prev,
                        !.ret = canRedo(buffer), !.n = obs.n + 1, !.arg = <<0, 0>>]
  /\ UNCHANGED <<editor, normalMode, visualMode, commandMode, screen, window, layout, keymap>>

SetCursor ==
  /\ obs.n < MaxOps
  /\ \E arg \in CursorArgs :
       /\ buffer' = setCursor(Called(buffer), arg[1], arg[2])
       /\ obs' = [obs EXCEPT !.op = "setCursor", !.prev = obs.op, !.prev2 = obs.prev,
                             !.ret = TRUE, !.n = obs.n + 1, !.arg = arg]
  /\ UNCHANGED <<editor, normalMode, visualMode, commandMode, screen, window, layout, keymap>>

InitBuf == InitWith(InitialContents)
NextBuf == \/ Insert \/ Delete \/ DeleteLine \/ ReplaceLine \/ AppendLine \/ Clear
           \/ Undo \/ Redo \/ SetCursor
SpecBuf == InitBuf /\ [][NextBuf]_vars

----------------------------------------------------------------------------
(* SpecHistory: edits, undo() and redo() called often enough to reach the cap of *)
(* the history                                                                   *)

MaxHistoryOps == 7
HistoryContents == { <<>>, <<"a", "b">> }

\* a call named name that leaves the buffer b2 and returned ret
HistoryStep(name, b2, ret) ==
  /\ Len(obs.keys) < MaxHistoryOps
  /\ buffer' = b2
  /\ obs' = [obs EXCEPT !.op = name, !.ret = ret, !.n = obs.n + 1,
                        !.before = Snapshot(buffer), !.after = Snapshot(b2),
                        !.keys = Append(obs.keys, name)]
  /\ UNCHANGED <<editor, normalMode, visualMode, commandMode, screen, window, layout, keymap>>

HistoryInsert == HistoryStep("edit", insert(Called(buffer), <<"x">>, <<>>), TRUE)
HistoryAppendLine == HistoryStep("edit", appendLine(Called(buffer), 0, <<"z">>), TRUE)
HistoryUndo == HistoryStep("undo", undo(Called(buffer)), canUndo(buffer))
HistoryRedo == HistoryStep("redo", redo(Called(buffer)), canRedo(buffer))

InitHistory == InitWith(HistoryContents)
NextHistory == HistoryInsert \/ HistoryAppendLine \/ HistoryUndo \/ HistoryRedo
SpecHistory == InitHistory /\ [][NextHistory]_vars

----------------------------------------------------------------------------
(* Spec: key tokens handed to the handler of the current mode               *)
(* (NeovimJS.handleNormalInput / handleInsertInput / handleCommandLineInput) *)

\* file contents of the key-driven specifications
KeyContents ==
  { <<"a", "b">>,
    <<"a", " ", "b", "\n", "c">>,
    <<"a", "\n", " ", "b">> }

\* the key tokens typed
Keys == { "h", "j", "k", "l", "w", "b", "e", "0", "$", "x", "i", "a", "o", "S",
          "d", "y", "p", "g", "G", "u", "<C-r>", "v", ":", "2", "<",
          "<Esc>", "<BS>", "<CR>" }

World == [ b |-> Called(buffer), e |-> editor, n |-> normalMode, v |-> visualMode,
           c |-> commandMode, win |-> window, msg |-> screen.message,
           cmdline |-> screen.cmdline, inputBuffer |-> screen.inputBuffer,
           timer |-> screen.inputTimeout, sent |-> screen.dispatched, exit |-> FALSE,
           ret |-> TRUE ]

\* the state after the handler returned w2, or after its exception ended the process
Commit(w2) ==
  /\ buffer' = w2.b
  /\ editor' = w2.e
  /\ normalMode' = w2.n
  /\ visualMode' = w2.v
  /\ commandMode' = w2.c
  /\ window' = w2.win
  /\ screen' = [ inputBuffer |-> w2.inputBuffer, inputTimeout |-> w2.timer,
                 cmdline |-> w2.cmdline, message |-> w2.msg,
                 process |-> IF w2.b.threw THEN "crashed"
                             ELSE IF w2.exit THEN "exited" ELSE "running",
                 dispatched |-> w2.sent ]
  /\ UNCHANGED <<layout, keymap>>

Observe(key, w2) ==
  obs' = [obs EXCEPT !.op = key, !.ret = w2.ret, !.n = obs.n + 1,
                     !.before = Snapshot(buffer), !.after = Snapshot(w2.b),
                     !.modeBefore = editor.mode]

KeyStep(mode, key, w2) ==
  /\ screen.process = "running"
  /\ editor.mode = mode
  /\ obs.n < MaxKeys
  /\ Commit(w2)
  /\ Observe(key, w2)

NormalKey == \E key \in Keys : KeyStep("normal", key, NormalMode_handle(World, key))
InsertKey == \E key \in Keys : KeyStep("insert", key, InsertMode_handle(World, key))
VisualKey == \E key \in Keys : KeyStep("visual", key, VisualMode_handle(World, key))
CommandKey == \E key \in Keys : KeyStep("command", key, CommandMode_handle(World, key))

Init == InitWith(KeyContents)
\* what fs.readFileSync returns for the file of :e
FileContent == <<"x", "y">>

\* the promise awaited by a suspended execute() settles and the call runs to its end
Resume ==
  /\ screen.process = "running"
  /\ commandMode.pending # <<>>
  /\ \E fsOk \in BOOLEAN :
       \E w2 \in {CommandMode_resume(World, fsOk, FileContent)} :
         /\ Commit(w2)
         /\ obs' = [obs EXCEPT !.op = "<resume>", !.ret = w2.ret,
                               !.before = Snapshot(buffer), !.after = Snapshot(w2.b),
                               !.modeBefore = editor.mode, !.fsOk = fsOk]

Next == NormalKey \/ InsertKey \/ VisualKey \/ CommandKey \/ Resume
Spec == Init /\ [][Next]_vars

----------------------------------------------------------------------------
(* SpecHost: Spec, with a host that also calls the TextBuffer API between keys *)

HostCalls(b) ==
  { <<"insert", insert(b, <<"x">>, <<>>)>>,
    <<"insert", insert(b, <<"\n">>, <<>>)>>,
    <<"delete", delete(b, 1, <<>>)>>,
    <<"deleteLine", deleteLine(b, b.cursor.row)>>,
    <<"deleteLine", deleteLine(b, 0)>>,
    <<"replaceLine", replaceLine(b, 0, <<"z">>)>>,
    <<"appendLine", appendLine(b, 0, <<"z">>)>>,
    <<"clear", clear(b)>>,
    <<"undo", undo(b)>>,
    <<"redo", redo(b)>> }

HostCall ==
  /\ screen.process = "running"
  /\ obs.n < MaxKeys
  /\ \E call \in HostCalls(Called(buffer)) :
       /\ buffer' = call[2]
       /\ obs' = [obs EXCEPT !.op = call[1], !.ret = TRUE, !.n = obs.n + 1,
                             !.before = Snapshot(buffer), !.after = Snapshot(call[2])]
  /\ UNCHANGED <<editor, normalMode, visualMode, commandMode, screen, window, layout, keymap>>

NextHost == Next \/ HostCall
SpecHost == Init /\ [][NextHost]_vars

----------------------------------------------------------------------------
(* SpecApply: operators typed in Normal mode before a motion and in Visual mode *)
(* on a selection                                                               *)

ApplyKeys == { "v", "d", "y", "c", ">", "<", "=", "~", "p", "w", "j", "l", "$", "x", "2" }

ApplyNormalKey == \E key \in ApplyKeys : KeyStep("normal", key, NormalMode_handle(World, key))
ApplyInsertKey == \E key \in ApplyKeys : KeyStep("insert", key, InsertMode_handle(World, key))
ApplyVisualKey == \E key \in ApplyKeys : KeyStep("visual", key, VisualMode_handle(World, key))

NextApply == ApplyNormalKey \/ ApplyInsertKey \/ ApplyVisualKey
SpecApply == Init /\ [][NextApply]_vars

----------------------------------------------------------------------------
(* SpecOperator: counts, operators and the word motion typed in Normal mode *)

MaxOperatorKeys == 4
OperatorContents ==
  { <<"h", "e", "l", "l", "o", " ", "w", "o", "r", "l", "d">>,
    <<"a", " ", "b", " ", "c", " ", "d", " ", "e", " ", "f", " ", "g", " ", "h">> }
OperatorKeySet == {"2", "3", "d", "w"}

OperatorKey ==
  \E key \in OperatorKeySet :
    LET w2 == NormalMode_handle(World, key)
    IN  /\ screen.process = "running"
        /\ editor.mode = "normal"
        /\ Len(obs.keys) < MaxOperatorKeys
        /\ Commit(w2)
        /\ obs' = [obs EXCEPT !.op = key, !.ret = w2.ret, !.n = obs.n + 1,
                              !.before = Snapshot(buffer), !.after = Snapshot(w2.b),
                              !.keys = Append(obs.keys, key)]

InitOperator == InitWith(OperatorContents)
SpecOperator == InitOperator /\ [][OperatorKey]_vars

----------------------------------------------------------------------------
(* SpecKeymap: a host registering, removing and matching Normal-mode triggers *)

Triggers == { <<"d">>, <<"d", "d">>, <<"d", "w">>, <<"g">> }
Bindings == { "A", "B" }

KeymapStep(name, input, result) ==
  /\ obs.n < MaxOps
  /\ obs' = [obs EXCEPT !.op = name, !.keys = input, !.ret = result, !.n = obs.n + 1]
  /\ UNCHANGED <<buffer, editor, normalMode, visualMode, commandMode, screen, window, layout>>

\* obs.target: the existingIndex set() found
KeymapSet == \E lhs \in Triggers : \E rhs \in Bindings :
               /\ obs.n < MaxOps
               /\ keymap' = Keymap_set(keymap, lhs, rhs)
               /\ obs' = [obs EXCEPT !.op = "set", !.keys = lhs, !.ret = TRUE, !.n = obs.n + 1,
                                     !.rhs = rhs, !.target = findIndex(keymap, lhs)]
               /\ UNCHANGED <<buffer, editor, normalMode, visualMode, commandMode, screen,
                              window, layout>>
KeymapDel == \E lhs \in Triggers :
               KeymapStep("del", lhs, findIndex(keymap, lhs) # -1)
               /\ keymap' = Keymap_del(keymap, lhs)
KeymapMatch == \E input \in Triggers :
               KeymapStep("match", input, Keymap_match(keymap, input)) /\ UNCHANGED keymap

InitKeymap == InitWith({<<>>})
NextKeymap == KeymapSet \/ KeymapDel \/ KeymapMatch
SpecKeymap == InitKeymap /\ [][NextKeymap]_vars

----------------------------------------------------------------------------
(* SpecMotion: the g and z prefixes and the word motions typed in Normal mode *)

MaxMotionKeys == 3
MotionContents ==
  { <<"f", "o", "o", " ", " ", "b", "a", "r", "-", "b", "a", "z">>,
    <<"a", " ", "b", "\n", "c", " ", "d", "\n", "e">> }
MotionKeySet == {"g", "z", "t", "b", "e", "j", "w"}

MotionKey ==
  /\ screen.process = "running"
  /\ editor.mode = "normal"
  /\ Len(obs.keys) < MaxMotionKeys
  /\ \E key \in MotionKeySet :
       \E w2 \in {NormalMode_handle(World, key)} :
         /\ Commit(w2)
         /\ obs' = [obs EXCEPT !.op = key, !.ret = w2.ret, !.n = obs.n + 1,
                               !.before = Snapshot(buffer), !.after = Snapshot(w2.b),
                               !.keys = Append(obs.keys, key), !.modeBefore = editor.mode]

InitMotion == InitWith(MotionContents)
SpecMotion == InitMotion /\ [][MotionKey]_vars

----------------------------------------------------------------------------
(* SpecWindow: a host calling the Window API on the windows of a split tree *)

MaxWindowOps == 3
MaxWindows == 5
WindowSizes == { <<5, 9>> }
WindowPositions == { <<1, 2>> }
WindowCursors == { [row |-> 0, col |-> 0], [row |-> 30, col |-> 100] }
Directions == { "horizontal", "vertical" }

ValidWindows == { id \in 1..Len(layout.windows) : layout.windows[id].valid }

\* a call on window id (or tab index) target that leaves the layout l2
LayoutStep(name, target, bound, l2) ==
  /\ obs.n < bound
  /\ layout' = l2
  /\ obs' = [obs EXCEPT !.op = name, !.target = target, !.ret = l2.ret, !.threw = l2.threw,
                        !.n = obs.n + 1]
  /\ UNCHANGED <<buffer, editor, normalMode, visualMode, commandMode, screen, window, keymap>>

Calling == [layout EXCEPT !.ret = TRUE, !.threw = FALSE]

WindowSplit ==
  \E id \in ValidWindows : \E direction \in Directions :
    /\ Len(layout.windows) + 2 <= MaxWindows
    /\ LayoutStep("split", id, MaxWindowOps, Window_split(Calling, id, direction))
WindowClose ==
  \E id \in ValidWindows :
    LayoutStep("close", id, MaxWindowOps,
               [Calling EXCEPT !.windows = Window_close(layout.windows, id)])
WindowSetSize ==
  \E id \in ValidWindows : \E size \in WindowSizes :
    LayoutStep("setSize", id, MaxWindowOps,
               [Calling EXCEPT !.windows = Window_setSize(layout.windows, id, size[1], size[2])])
WindowSetPosition ==
  \E id \in ValidWindows : \E position \in WindowPositions :
    LayoutStep("setPosition", id, MaxWindowOps,
               [Calling EXCEPT !.windows =
                  Window_setPosition(layout.windows, id, position[1], position[2])])
WindowEnsureCursorVisible ==
  \E id \in ValidWindows : \E cursor \in WindowCursors :
    /\ obs.n < MaxWindowOps
    /\ layout' = [Calling EXCEPT !.windows[id] = ensureCursorVisible(layout.windows[id], cursor)]
    /\ obs' = [obs EXCEPT !.op = "ensureCursorVisible", !.target = id, !.ret = TRUE,
                          !.threw = FALSE, !.n = obs.n + 1,
                          !.before = [lines |-> obs.before.lines, cursor |-> cursor]]
    /\ UNCHANGED <<buffer, editor, normalMode, visualMode, commandMode, screen, window, keymap>>

InitWindowSpec == InitWith({<<>>})
NextWindow ==
  WindowSplit \/ WindowClose \/ WindowSetSize \/ WindowSetPosition \/ WindowEnsureCursorVisible
SpecWindow == InitWindowSpec /\ [][NextWindow]_vars

----------------------------------------------------------------------------
(* SpecTab: the windows and tabs of the editor split, added and closed *)

MaxTabOps == 4
MaxTabs == 2
\* splice indices: from the end, inside and past the end of a list of at most 2
CloseIndices == { -1, 0, 1, 2 }

ActiveTab == getActiveTab(layout)

EditorSplitWindow ==
  \E direction \in Directions :
    /\ Len(layout.windows) + 2 <= MaxWindows
    /\ LayoutStep("splitWindow", ActiveTab, MaxTabOps, Editor_splitWindow(Calling, direction))
EditorCloseWindow ==
  LayoutStep("closeWindow", ActiveTab, MaxTabOps, Editor_closeWindow(Calling))
TabAddWindow ==
  /\ Len(layout.windows) + 1 <= MaxWindows
  /\ LayoutStep("addWindow", ActiveTab, MaxTabOps, Tab_addWindow(Calling, ActiveTab))
TabSetActiveWindow ==
  \E index \in CloseIndices :
    LayoutStep("setActiveWindow", ActiveTab, MaxTabOps,
               Tab_setActiveWindow(Calling, ActiveTab, index))
TabCloseWindow ==
  \E index \in CloseIndices :
    LayoutStep("Tab.closeWindow", ActiveTab, MaxTabOps,
               Tab_closeWindow(Calling, ActiveTab, index))
EditorNewTab ==
  /\ Len(layout.tabs) < MaxTabs
  /\ Len(layout.windows) + 1 <= MaxWindows
  /\ LayoutStep("newTab", Len(layout.tabs), MaxTabOps, Editor_newTab(Calling))
TabManagerCloseTab ==
  \E index \in CloseIndices :
    LayoutStep("closeTab", index, MaxTabOps, closeTab(Calling, index))

NextTab ==
  \/ EditorSplitWindow \/ EditorCloseWindow \/ TabAddWindow \/ TabSetActiveWindow
  \/ TabCloseWindow \/ EditorNewTab \/ TabManagerCloseTab
SpecTab == InitWindowSpec /\ [][NextTab]_vars

----------------------------------------------------------------------------
(* SpecScreen: key presses and the input timeout of the Screen, with the    *)
(* triggers d -> A and dd -> B registered for Normal mode                    *)

ScreenContents == { <<"a", "b">>, <<"a", " ", "b", "\n", "c">> }
ScreenKeys == { "d", "w", "x", "i", "v", ":", "/", "u", "<CR>", "<BS>", "<Esc>", "<C-c>" }

KeyPress ==
  \E keyStr \in ScreenKeys :
    \E w2 \in {handleKeyPress(World, keyStr)} :
        /\ screen.process = "running"
        /\ Len(SelectSeq(obs.keys, LAMBDA k : k # "<timeout>")) < MaxKeys
        /\ Commit(w2)
        /\ obs' = [obs EXCEPT !.op = keyStr, !.ret = w2.ret, !.n = obs.n + 1,
                              !.before = Snapshot(buffer), !.after = Snapshot(w2.b),
                              !.keys = Append(obs.keys, keyStr),
                              !.modeBefore = editor.mode]

Timeout ==
  \E w2 \in {inputTimeoutFired(World)} :
      /\ screen.process = "running"
      /\ screen.inputTimeout
      /\ Commit(w2)
      /\ obs' = [obs EXCEPT !.op = "<timeout>", !.ret = w2.ret,
                            !.before = Snapshot(buffer), !.after = Snapshot(w2.b),
                            !.keys = Append(obs.keys, "<timeout>"),
                            !.modeBefore = editor.mode]

InitScreenSpec ==
  /\ InitObjects(ScreenContents)
  /\ \E registered \in {Keymap_set(<<>>, <<"d">>, "A")} :
       keymap = Keymap_set(registered, <<"d", "d">>, "B")
NextScreen == KeyPress \/ Timeout
SpecScreen == InitScreenSpec /\ [][NextScreen]_vars
\* a timer that was set and not cleared fires once the event loop is idle
SpecScreenFair == SpecScreen /\ WF_vars(Timeout)

----------------------------------------------------------------------------
(* SpecCommand: colon commands typed from Normal mode, single keys, the resumption *)
(* of a suspended command and the report of a rejected one                        *)

MaxCommandSteps == 3

CommandContents == { <<"a", "a", "a">>, <<"a", "a", "a", "\n", "b", "a", "b">> }
CommandLines ==
  { <<"w">>, <<"q">>, <<"u">>, <<"b", "p">>, <<"e", " ", "g">>, <<"f", "o", "o">>,
    <<"s", "/", "a", "/", "b", "/">>, <<"s", " ", "/", "a", "/", "b", "/">>,
    <<"%", "s", "/", "a", "/", "b", "/">>, <<"%", "s", " ", "/", "a", "/", "b", "/">>,
    <<"s", " ", "a">>, <<"s", " ", "/", "(", "/", "b", "/">> }
CommandKeys == { "j", "x", "i", "<Esc>" }

\* NeovimJS.handleNormalInput / handleInsertInput / handleCommandLineInput: the key goes
\* to the handler of the current mode
handleInput(w, key) ==
  CASE w.e.mode = "normal" -> NormalMode_handle(w, key)
    [] w.e.mode = "visual" -> VisualMode_handle(w, key)
    [] w.e.mode = "insert" -> InsertMode_handle(w, key)
    [] w.e.mode = "command" -> CommandMode_handle(w, key)
    [] OTHER -> w

\* the keys handled one after the other
RECURSIVE typeKeys(_, _)
typeKeys(w, keys) ==
  IF keys = <<>> \/ w.b.threw \/ w.exit THEN w
  ELSE typeKeys(handleInput(w, Head(keys)), Tail(keys))

\* ':', the characters of a command and <CR>
CommandLine ==
  /\ screen.process = "running"
  /\ editor.mode = "normal"
  /\ obs.n < MaxCommandSteps
  /\ \E command \in CommandLines :
       \E w2 \in {typeKeys(World, <<":">> \o command \o <<"<CR>">>)} :
         /\ Commit(w2)
         /\ obs' = [obs EXCEPT !.op = "<CR>", !.ret = w2.ret, !.n = obs.n + 1,
                               !.before = Snapshot(buffer), !.after = Snapshot(w2.b),
                               !.command = command, !.modeBefore = editor.mode]

CommandSpecKey ==
  /\ screen.process = "running"
  /\ obs.n < MaxCommandSteps
  /\ \E key \in CommandKeys :
       \E w2 \in {handleInput(World, key)} :
         /\ Commit(w2)
         /\ obs' = [obs EXCEPT !.op = key, !.ret = w2.ret, !.n = obs.n + 1,
                               !.before = Snapshot(buffer), !.after = Snapshot(w2.b),
                               !.modeBefore = editor.mode]

\* the runtime ends the process on the unhandled rejection (the default of Node.js
\* from version 15 on; earlier versions print a warning and go on)
UnhandledRejection ==
  /\ screen.process = "running"
  /\ commandMode.rejected
  /\ screen' = [screen EXCEPT !.process = "crashed"]
  /\ obs' = [obs EXCEPT !.op = "<unhandledRejection>"]
  /\ UNCHANGED <<buffer, editor, normalMode, visualMode, commandMode, window, layout, keymap>>

InitCommand == InitWith(CommandContents)
NextCommand == CommandLine \/ CommandSpecKey \/ Resume \/ UnhandledRejection
SpecCommand == InitCommand /\ [][NextCommand]_vars

----------------------------------------------------------------------------
(* SpecColon: SpecCommand, with the key : also typed on its own *)

ColonKey ==
  /\ screen.process = "running"
  /\ editor.mode = "normal"
  /\ obs.n < MaxCommandSteps
  /\ \E w2 \in {NormalMode_handle(World, ":")} :
       /\ Commit(w2)
       /\ obs' = [obs EXCEPT !.op = ":", !.ret = w2.ret, !.n = obs.n + 1,
                             !.before = Snapshot(buffer), !.after = Snapshot(w2.b),
                             !.modeBefore = editor.mode]

NextColon == NextCommand \/ ColonKey
SpecColon == InitCommand /\ [][NextColon]_vars

----------------------------------------------------------------------------
(* SpecQuit: text-changing keys and the commands that write and quit *)

QuitLines == { <<"q">>, <<"w">>, <<"w", "q">>, <<"x">> }
QuitKeys == { "x", "S", "d", "w", "<Esc>" }

QuitLine ==
  /\ screen.process = "running"
  /\ editor.mode = "normal"
  /\ obs.n < MaxCommandSteps
  /\ \E command \in QuitLines :
       \E w2 \in {typeKeys(World, <<":">> \o command \o <<"<CR>">>)} :
         /\ Commit(w2)
         /\ obs' = [obs EXCEPT !.op = "<CR>", !.ret = w2.ret, !.n = obs.n + 1,
                               !.before = Snapshot(buffer), !.after = Snapshot(w2.b),
                               !.command = command, !.modeBefore = editor.mode]

QuitKey ==
  /\ screen.process = "running"
  /\ obs.n < MaxCommandSteps
  /\ \E key \in QuitKeys :
       \E w2 \in {handleInput(World, key)} :
         /\ Commit(w2)
         /\ obs' = [obs EXCEPT !.op = key, !.ret = w2.ret, !.n = obs.n + 1,
                               !.before = Snapshot(buffer), !.after = Snapshot(w2.b),
                               !.modeBefore = editor.mode]

\* Resume; obs.initial follows the text of the file: what was loaded or last written
QuitResume ==
  /\ screen.process = "running"
  /\ commandMode.pending # <<>>
  /\ \E fsOk \in BOOLEAN :
       \E w2 \in {CommandMode_resume(World, fsOk, FileContent)} :
         /\ Commit(w2)
         /\ obs' = [obs EXCEPT !.op = "<resume>", !.ret = w2.ret,
                               !.before = Snapshot(buffer), !.after = Snapshot(w2.b),
                               !.modeBefore = editor.mode, !.fsOk = fsOk,
                               !.initial = IF w2.msg = "written" THEN w2.b.lines
                                           ELSE obs.initial]

NextQuit == QuitLine \/ QuitKey \/ QuitResume
SpecQuit == InitCommand /\ [][NextQuit]_vars

----------------------------------------------------------------------------
(* Claims about colon commands *)

\* C11: no key is handled while a previously submitted command is still executing: a
\* step that handles a key (or a command line) starts only when no call of execute()
\* is suspended.
NoKeyWhileExecuting == [][obs'.n = obs.n + 1 => commandMode.pending = <<>>]_vars

\* C14: once <CR> has executed the buffered command string and the command has run to
\* its end, the mode is Normal, whatever the command string was.
CommandReturnsToNormal ==
  (obs.op \in {"<CR>", "<resume>"} /\ commandMode.pending = <<>> /\ screen.process = "running")
    => editor.mode = "normal"

InputErrors ==
  { <<"f", "o", "o">>, <<"s", " ", "a">>, <<"s", " ", "/", "(", "/", "b", "/">> }

\* C15: an unknown command name, a malformed substitute argument and a substitute with an
\* invalid regular expression are reported as a status message, raise no exception,
\* leave the text unchanged and leave the mode Normal.
InputErrorReported ==
  (obs.op = "<CR>" /\ obs.command \in InputErrors)
    => /\ ~commandMode.rejected
       /\ screen.message # "null"
       /\ obs.after.lines = obs.before.lines
       /\ editor.mode = "normal"

\* every a of the line replaced by b
AllAToB(line) == [i \in 1..Len(line) |-> IF line[i] = "a" THEN "b" ELSE line[i]]

\* C16: with the current line "aaa", s/a/b/ changes only the current line, to "bbb", and
\* reports 3 substitutions; %s/a/b/ applies the substitution to every line.
SubstituteCounts ==
  /\ ( /\ obs.op = "<CR>"
       /\ obs.command \in { <<"s", "/", "a", "/", "b", "/">>,
                            <<"s", " ", "/", "a", "/", "b", "/">> }
       /\ obs.before.lines[obs.before.cursor.row + 1] = <<"a", "a", "a">> )
     => /\ obs.after.lines = [obs.before.lines EXCEPT ![obs.before.cursor.row + 1] =
                                                        <<"b", "b", "b">>]
        /\ screen.message = "3 substitution(s)"
  /\ ( /\ obs.op = "<CR>"
       /\ obs.command \in { <<"%", "s", "/", "a", "/", "b", "/">>,
                            <<"%", "s", " ", "/", "a", "/", "b", "/">> } )
     => obs.after.lines = [i \in 1..Len(obs.before.lines) |-> AllAToB(obs.before.lines[i])]

\* C12: a key-sequence timer is pending only while the key buffer is non-empty: it is
\* cancelled as soon as the buffered sequence is committed or the buffer is cleared.
TimerOnlyWhileBuffered ==
  (screen.process = "running" /\ screen.inputTimeout) => screen.inputBuffer # <<>>

\* C13: from Insert, Visual and Command mode the key <Esc> or <C-c> brings the mode to
\* Normal; leaving Visual clears the selection, and leaving Insert with the cursor past
\* the last character moves the cursor one column left.
EscapeLeavesToNormal ==
  (obs.op \in {"<Esc>", "<C-c>"} /\ obs.modeBefore \in {"insert", "visual", "command"})
    => /\ editor.mode = "normal"
       /\ (obs.modeBefore = "visual" => ~hasSelection(buffer))
       /\ ( ( /\ obs.modeBefore = "insert"
              /\ obs.before.cursor.col > 0
              /\ obs.before.cursor.col >= Len(obs.before.lines[obs.before.cursor.row + 1]) )
            => buffer.cursor = Pos(obs.before.cursor.row, obs.before.cursor.col - 1) )

----------------------------------------------------------------------------
(* Claims about registers, prefixes and motions *)

\* the text buffer.delete(1) removes at the cursor
CharUnderCursor ==
  Slice(getLine(buffer, buffer.cursor.row), buffer.cursor.col, buffer.cursor.col + 1)

\* C17: each delete shifts the numbered registers: register n (2 <= n <= 9) takes what
\* register n-1 held and register 1 takes the newly deleted text (here: the deletes
\* made by the key x).
DeleteShiftsRegisters ==
  [][ ( /\ obs'.op = "x" /\ obs'.n = obs.n + 1
        /\ editor.mode = "normal" /\ normalMode.operator = "null"
        /\ screen'.process = "running" )
      => /\ editor'.registers["1"] = CharUnderCursor
         /\ \A n \in 2..9 : editor'.registers[ToString(n)] = editor.registers[ToString(n - 1)]
    ]_vars

\* C18: g then g moves the cursor to (0,0); z then z / t / b scrolls the window to
\* centre / top / bottom on the cursor line; the second key is consumed by the prefix.
PrefixDispatch ==
  /\ obs.keys = <<"j", "g", "g">> =>
       (buffer.cursor = Pos(0, 0) /\ normalMode.operator = "null")
  /\ obs.keys = <<"j", "z", "z">> =>
       ( /\ window.scrollLine = Max(0, buffer.cursor.row - (WindowHeight \div 2))
         /\ normalMode.operator = "null" )
  /\ obs.keys = <<"j", "z", "t">> =>
       (window.scrollLine = buffer.cursor.row /\ normalMode.operator = "null")
  /\ obs.keys = <<"j", "z", "b">> =>
       ( /\ window.scrollLine = Max(0, buffer.cursor.row - WindowHeight + 1)
         /\ normalMode.operator = "null" )

\* C19: d then d deletes the line under the cursor (an only line becomes empty) and
\* stores the deleted line in the delete register.
DeleteLineDD ==
  obs.keys = <<"d", "d">> =>
    /\ buffer.lines = IF Len(obs.initial) = 1 THEN << <<>> >> ELSE Tail(obs.initial)
    /\ editor.registers["1"] = obs.initial[1] \o <<"\n">>

\* C20: on "foo  bar-baz" from column 0, w reaches column 5, a second w column 9, and e
\* pressed at column 5 reaches column 7.
WordMotionColumns ==
  obs.initial = << <<"f", "o", "o", " ", " ", "b", "a", "r", "-", "b", "a", "z">> >> =>
    /\ obs.keys = <<"w">> => buffer.cursor = Pos(0, 5)
    /\ obs.keys = <<"w", "w">> => buffer.cursor = Pos(0, 9)
    /\ obs.keys = <<"w", "e">> => buffer.cursor = Pos(0, 7)

\* C26: a file I/O failure only produces a status message: a failed write of :w leaves
\* the modified flag, the path and the text of the buffer unchanged; a failed read of :e
\* creates no buffer, switches to none and leaves the current buffer unchanged.
IOFailureOnlyReports ==
  [][ (obs'.op = "<resume>" /\ ~obs'.fsOk /\ commandMode.pending # <<>>
       /\ commandMode'.pending = Tail(commandMode.pending))
      => /\ buffer' = buffer
         /\ editor'.buffers = editor.buffers
         /\ editor'.current = editor.current
         /\ screen'.message \in {"Error writing file", "Error reading file", "No file name"}
    ]_vars

IOFailureOnlyReportsWitness ==
  /\ obs.op = "<resume>" /\ ~obs.fsOk
  /\ screen.message = "Error writing file"
  /\ buffer.modified
  /\ buffer.path = FilePath

----------------------------------------------------------------------------
(* Claims about operators *)

\* the operators of Normal mode that take a motion
MotionOperators == {"d", "y", "c", ">", "<", "="}

\* the operators VisualMode.handleOperator has a case for
AppliedVisualOperators == {"d", "y", "c", ">", "<", "~"}

\* the step handles the key obs'.op in the mode it names
Handles(mode) == obs'.n = obs.n + 1 /\ editor.mode = mode /\ screen.process = "running"

\* the key of the step is taken as a digit of the count
CountDigit(count) == obs'.op \in DigitKeys \ {"0"} \/ (count > 0 /\ obs'.op \in DigitKeys)

UnknownMotionAborts ==
  [][ ( /\ Handles("normal")
        /\ normalMode.operatorPending /\ normalMode.operator \in MotionOperators
        /\ obs'.op \notin OperatorMotions /\ ~CountDigit(normalMode.count)
        /\ obs'.op # normalMode.operator )
      => /\ screen'.process = "running"
         /\ normalMode' = InitNormalMode
         /\ buffer'.lines = buffer.lines
         /\ buffer'.cursor = buffer.cursor
         /\ editor'.registers = editor.registers
         /\ editor'.mode = "normal"
    ]_vars

----------------------------------------------------------------------------
(* Claims about the entry list of the keymap *)

----------------------------------------------------------------------------
(* Claims about windows and tabs *)

\* floor(x * 0.5) for x >= 0
Half(x) == CHOOSE k \in 0..x : 2 * k <= x /\ x < 2 * k + 2

\* the windows of the tree below id, id included
RECURSIVE Reach(_, _)
Reach(ws, id) ==
  {id} \cup UNION { Reach(ws, ws[id].children[i]) : i \in 1..Len(ws[id].children) }

Rect(row, col, height, width) == [row |-> row, col |-> col, height |-> height, width |-> width]
RectOf(win) == Rect(win.row, win.col, win.height, win.width)

\* the two children of p have the rectangles of the claim
Tiles(ws, p) ==
  LET H == ws[p].height
      W == ws[p].width
      first  == ws[ws[p].children[1]]
      second == ws[ws[p].children[2]]
  IN  IF ws[p].splitType = "horizontal"
      THEN /\ RectOf(first) = Rect(ws[p].row, ws[p].col, Half(H), W)
           /\ RectOf(second) = Rect(ws[p].row + Half(H), ws[p].col, H - Half(H), W)
      ELSE /\ RectOf(first) = Rect(ws[p].row, ws[p].col, H, Half(W))
           /\ RectOf(second) = Rect(ws[p].row, ws[p].col + Half(W), H, W - Half(W))

\* C21: splitting a leaf window creates exactly two children that halve its rectangle
\* (heights floor(H/2) and H - floor(H/2) stacked for a horizontal split, widths for a
\* vertical one), and after a resize or move of a window every split below it still
\* tiles its parent exactly.
SplitTilesParent ==
  ( \/ (obs.op = "split" /\ obs.ret)
    \/ obs.op \in {"setSize", "setPosition"} )
  => /\ obs.op = "split" => Len(layout.windows[obs.target].children) = 2
     /\ \A p \in Reach(layout.windows, obs.target) :
          /\ Len(layout.windows[p].children) \in {0, 2}
          /\ Len(layout.windows[p].children) = 2 => Tiles(layout.windows, p)

SplitTilesParentWitness ==
  /\ obs.op = "setSize"
  /\ Len(layout.windows[obs.target].children) = 2
  /\ \E c \in Reach(layout.windows, obs.target) \ {obs.target} :
       Len(layout.windows[c].children) = 2
  /\ layout.windows[obs.target].height # WindowHeight

Range(list) == { list[i] : i \in 1..Len(list) }

\* C23: the window list of every tab holds exactly the valid leaf windows of the split
\* trees of the tab, and the active index designates one of them.
TabListsLeaves ==
  \A t \in 1..Len(layout.tabs) :
    LET tab    == layout.tabs[t]
        tree   == UNION { Reach(layout.windows, r) : r \in Range(tab.windows) }
        leaves == { w \in tree : layout.windows[w].valid /\ layout.windows[w].children = <<>> }
    IN  /\ Range(tab.windows) = leaves
        /\ tab.activeWindowIndex \in 0..(Len(tab.windows) - 1)

Program(l) == [windows |-> l.windows, buffers |-> l.buffers, tabs |-> l.tabs,
               activeTabIndex |-> l.activeTabIndex]

\* C24: Tab.closeWindow on the last window of a tab and TabManager.closeTab on the last
\* tab return false, throw nothing and change no state; every tab keeps at least one
\* window and the manager at least one tab.
LastWindowAndTabKept ==
  [][ /\ ( /\ obs'.op = "Tab.closeWindow" /\ obs'.n = obs.n + 1
           /\ Len(layout.tabs[ActiveTab].windows) <= 1 )
          => (~obs'.ret /\ ~obs'.threw /\ Program(layout') = Program(layout))
      /\ ( /\ obs'.op = "closeTab" /\ obs'.n = obs.n + 1
           /\ Len(layout.tabs) <= 1 )
          => (~obs'.ret /\ ~obs'.threw /\ Program(layout') = Program(layout))
      /\ Len(layout'.tabs) >= 1
      /\ \A t \in 1..Len(layout'.tabs) : Len(layout'.tabs[t].windows) >= 1
    ]_vars

LastWindowAndTabKeptWitness ==
  /\ obs.op = "Tab.closeWindow"
  /\ ~obs.ret
  /\ Len(layout.tabs[ActiveTab].windows) = 1
  /\ Len(layout.tabs) = 2

\* C25: after ensureCursorVisible(cursor) the cursor is inside the viewport of the
\* window, vertically and horizontally, and a second call changes nothing.
CursorInsideViewport ==
  obs.op = "ensureCursorVisible" =>
    LET win    == layout.windows[obs.target]
        cursor == obs.before.cursor
    IN  /\ win.scrollLine <= cursor.row /\ cursor.row <= win.scrollLine + win.height - 1
        /\ win.scrollCol <= cursor.col /\ cursor.col <= win.scrollCol + win.width - 1
        /\ ensureCursorVisible(win, cursor) = win

----------------------------------------------------------------------------
(* Claims about setCursor *)

\* x brought into [lo, hi]
Clamp(x, lo, hi) == IF x < lo THEN lo ELSE IF x > hi THEN hi ELSE x

\* C28: setCursor(r, c) never fails: it sets the cursor row to r clamped into
\* [0, lineCount - 1] and the column to c clamped into [0, len(line[row])], changes
\* nothing else, and a second call with the same arguments leaves the buffer as it is.
SetCursorClamps ==
  [][ (obs'.op = "setCursor" /\ obs'.n = obs.n + 1)
      => LET row == Clamp(obs'.arg[1], 0, Len(buffer.lines) - 1)
             col == Clamp(obs'.arg[2], 0, Len(buffer.lines[row + 1]))
         IN  /\ ~buffer'.threw
             /\ buffer' = [buffer EXCEPT !.cursor = [row |-> row, col |-> col], !.threw = FALSE]
             /\ setCursor(buffer', obs'.arg[1], obs'.arg[2]) = buffer'
    ]_vars

SetCursorClampsWitness ==
  /\ obs.op = "setCursor"
  /\ obs.arg = <<7, 0>>
  /\ Len(buffer.lines) >= 2
  /\ buffer.cursor = [row |-> Len(buffer.lines) - 1, col |-> 0]
  /\ obs.prev = "setCursor"

----------------------------------------------------------------------------
(* Claims about the cursor and the line count *)

\* C1: after any sequence of TextBuffer operations the cursor satisfies
\* 0 <= cursor.row < lineCount and 0 <= cursor.col <= len(line[cursor.row]).
CursorInBounds ==
  /\ 0 <= buffer.cursor.row
  /\ buffer.cursor.row < getLineCount(buffer)
  /\ 0 <= buffer.cursor.col
  /\ buffer.cursor.col <= getLineLength(buffer, buffer.cursor.row)

\* C2: after any sequence of TextBuffer operations and of keys handled by the mode
\* handlers, the buffer holds at least one line.
AtLeastOneLine == getLineCount(buffer) >= 1
\* the last line but one was removed: by a join, a line deletion or an undo
AtLeastOneLineWitness ==
  /\ getLineCount(buffer) = 1
  /\ Len(obs.before.lines) = 2
  /\ obs.op \in {"<BS>", "j", "deleteLine"}

\* C10: whenever the editor is in Normal mode the cursor does not rest beyond the last
\* character of its line: cursor.col <= max(0, len(line[cursor.row]) - 1).
NormalCursorOnLastChar ==
  editor.mode = "normal" =>
    buffer.cursor.col <= Max(0, getLineLength(buffer, buffer.cursor.row) - 1)

----------------------------------------------------------------------------
(* Claims about triggers and operators *)

IsEntry(entry, lhs, rhs) == entry.lhs = lhs /\ entry.rhs = rhs
StrictlyExtends(lhs, input) == Len(lhs) > Len(input) /\ startsWith(lhs, input)

\* C6: with d -> A and dd -> B registered for Normal mode, match("d") reports
\* complete = the entry of d, partial = the entry of dd and isAmbiguous = true; and
\* partial is non-empty exactly when some entry has a trigger that strictly extends
\* the matched sequence.
MatchReportsPartial ==
  (obs.op = "match") =>
    ( /\ ( ( /\ obs.keys = <<"d">>
             /\ Len(keymap) = 2
             /\ IsEntry(keymap[1], <<"d", "d">>, "B")
             /\ IsEntry(keymap[2], <<"d">>, "A") )
           => ( /\ IsEntry(obs.ret.complete, <<"d">>, "A")
                /\ IsEntry(obs.ret.partial, <<"d", "d">>, "B")
                /\ obs.ret.isAmbiguous ) )
      /\ ( (obs.ret.partial.rhs # "null")
            <=> (\E i \in 1..Len(keymap) : StrictlyExtends(keymap[i].lhs, obs.keys)) ) )

\* the binding of trigger was resolved and handed on
Committed(trigger) == \E i \in 1..Len(screen.dispatched) : screen.dispatched[i] = trigger

\* C7: with d -> A and dd -> B registered: after the key d, when the timeout elapses
\* the binding of d is committed; when a second d arrives before the timeout the
\* binding of dd is committed and the binding of d never is.
LongerTriggerCommits ==
  /\ obs.keys = <<"d", "<timeout>">> => Committed(<<"d">>)
  /\ obs.keys = <<"d", "d">> => (Committed(<<"d", "d">>) /\ ~Committed(<<"d">>))

\* C8: on ["hello world"] with the cursor at (0,0) in Normal mode, the keys d w leave
\* ["world"], the cursor at (0,0), and "hello " in the default register and register 1.
DeleteWordHello ==
  ( /\ obs.initial = << <<"h", "e", "l", "l", "o", " ", "w", "o", "r", "l", "d">> >>
    /\ obs.keys = <<"d", "w">> )
  => /\ buffer.lines = << <<"w", "o", "r", "l", "d">> >>
     /\ buffer.cursor = Pos(0, 0)
     /\ editor.registers["default"] = <<"h", "e", "l", "l", "o", " ">>
     /\ editor.registers["1"] = <<"h", "e", "l", "l", "o", " ">>

\* the world after the keys typed in Normal mode on a fresh buffer of the lines
RECURSIVE TypedFrom(_, _)
TypedFrom(w, keys) ==
  IF keys = <<>> \/ w.b.threw THEN w
  ELSE TypedFrom(NormalMode_handle(w, Head(keys)), Tail(keys))
Typed(lines, keys) ==
  TypedFrom([ b |-> NewBuffer(Join(lines)), e |-> InitEditor, n |-> InitNormalMode,
              v |-> InitVisualMode, c |-> InitCommandMode, win |-> InitWindow,
              msg |-> "null", cmdline |-> <<>>, inputBuffer |-> <<>>, timer |-> FALSE,
              sent |-> <<>>, exit |-> FALSE, ret |-> TRUE ], keys)

\* C9: a count before the operator and a count before the motion multiply: 2d3w has
\* the effect of d with the motion w repeated 6 times, and a count on one side only
\* (3dw, d3w) counts as itself.
CountsMultiply ==
  /\ obs.keys = <<"2", "d", "3", "w">> =>
       /\ screen.process = "running"
       /\ Snapshot(buffer) = Snapshot(Typed(obs.initial, <<"6", "d", "w">>).b)
  /\ obs.keys = <<"d", "3", "w">> =>
       Snapshot(buffer) = Snapshot(Typed(obs.initial, <<"3", "d", "w">>).b)

----------------------------------------------------------------------------
(* Claims about the undo history (SpecBuf) *)

MutatingOps == {"insert", "delete", "deleteLine", "replaceLine", "appendLine", "clear"}

\* C3: redo() after undo() after a mutation M restores the lines and the cursor
\* that M had produced: redo(undo(apply(B, M))) = apply(B, M).
RedoRestoresMutation ==
  (obs.op = "redo" /\ obs.prev = "undo" /\ obs.prev2 \in MutatingOps)
    => Snapshot(buffer) = obs.after

\* C4: undo() called immediately after a single mutating operation M on B returns
\* true and restores exactly B's lines and B's cursor: undo(apply(B, M)) = B.
UndoRestoresBefore ==
  (obs.op = "undo" /\ obs.prev \in MutatingOps)
    => (obs.ret = TRUE /\ Snapshot(buffer) = obs.before)

\* an undo right after a mutation that had changed the lines or the cursor
UndoRestoresBeforeWitness ==
  /\ obs.op = "undo" /\ obs.prev \in MutatingOps
  /\ obs.after # obs.before
  /\ Snapshot(buffer) = obs.before

\* C5: once an edit has been performed after one or more undos, redo() returns
\* false and changes nothing until another undo is performed.
RedoStep == obs'.n = obs.n + 1 /\ obs'.op = "redo"
NoRedoAfterEdit ==
  [][(RedoStep /\ obs.undos > 0 /\ ~obs.undoSinceEdit)
       => (obs'.ret = FALSE /\ Called(buffer') = Called(buffer))]_vars

\* a redo that was refused right after an edit that followed an undo
NoRedoAfterEditWitness ==
  /\ obs.op = "redo" /\ obs.prev \in MutatingOps /\ obs.prev2 = "undo"
  /\ obs.ret = FALSE

----------------------------------------------------------------------------
(* Claims about undo after the commands of the mode handlers *)

\* C31: after a single text-changing command handled in Normal or Visual mode (x, an
\* operator with its motion, d / > / < / ~ on a selection) that leaves the editor in
\* Normal mode, the undo key u restores the buffer lines that preceded that command.
UndoKeyRestores ==
  [][ ( /\ Handles("normal")
        /\ obs'.op = "u" /\ normalMode = InitNormalMode
        /\ obs.n > 0 /\ obs.modeBefore \in {"normal", "visual"}
        /\ obs.op \notin {"u", "<C-r>", "<resume>"}
        /\ obs.before.lines # obs.after.lines
        /\ obs.after.lines = buffer.lines )
      => buffer'.lines = obs.before.lines
    ]_vars

----------------------------------------------------------------------------
(* Claims about closing a window beside a split sibling *)

\* the valid leaf windows of the tree below window root
Leaves(ws, root) == { w \in Reach(ws, root) : ws[w].valid /\ ws[w].children = <<>> }

\* C32: closing a leaf window of the split tree removes only that leaf: when its
\* sibling is itself split, the leaf windows of the sibling all remain in the tree and
\* valid, and the number of leaf windows decreases by exactly one.
CloseRemovesOneLeaf ==
  [][ \A id \in 1..Len(layout.windows) :
        ( /\ obs'.op = "close" /\ obs'.target = id /\ obs'.n = obs.n + 1
          /\ id \in Leaves(layout.windows, 1)
          /\ layout.windows[id].parent # 0 )
        => /\ \A sib \in Range(layout.windows[layout.windows[id].parent].children) \ {id} :
                layout.windows[sib].children # <<>>
                => Leaves(layout.windows, sib) \subseteq Leaves(layout'.windows, 1)
           /\ Cardinality(Leaves(layout'.windows, 1))
                = Cardinality(Leaves(layout.windows, 1)) - 1
    ]_vars

----------------------------------------------------------------------------
(* Claims about entering Command mode *)

\* C33: whenever the key : takes the editor from Normal mode to Command mode, the
\* command-line buffer is empty, whatever happened in earlier Command-mode sessions.
ColonStartsEmpty ==
  [][ ( /\ obs'.n = obs.n + 1 /\ obs'.op = ":"
        /\ editor.mode = "normal" /\ editor'.mode = "command" )
      => commandMode'.commandBuffer = <<>>
    ]_vars

----------------------------------------------------------------------------
(* Claims about the stops of w and b *)

\* the class of a character: a word character, punctuation or blank
CharClass(char) ==
  IF isWordChar(char) THEN "word" ELSE IF isSpace(char) THEN "blank" ELSE "punctuation"

\* position (row, col) holds the first character of a word
IsWordStart(lines, row, col) ==
  /\ row >= 0 /\ row < Len(lines)
  /\ col >= 0 /\ col < Len(lines[row + 1])
  /\ CharClass(lines[row + 1][col + 1]) # "blank"
  /\ col > 0 => CharClass(lines[row + 1][col]) # CharClass(lines[row + 1][col + 1])

\* position p lies before position q
Before(p, q) == p.row < q.row \/ (p.row = q.row /\ p.col < q.col)

\* the word starts of the text
WordStarts(lines) ==
  UNION { { Pos(row, col) : col \in { c \in 0..(Len(lines[row + 1]) - 1) :
                                       IsWordStart(lines, row, c) } } :
          row \in 0..(Len(lines) - 1) }

\* C34: whenever w or b moves the cursor, the new position is the first character of a
\* word: for w the next word start after the cursor (on a following line if need be),
\* for b the nearest word start before the cursor.
WordMotionStops ==
  [][ ( /\ Handles("normal") /\ normalMode = InitNormalMode
        /\ obs'.op \in {"w", "b"}
        /\ buffer'.cursor # buffer.cursor )
      => /\ buffer'.cursor \in WordStarts(buffer.lines)
         /\ obs'.op = "w" =>
              /\ Before(buffer.cursor, buffer'.cursor)
              /\ \A p \in WordStarts(buffer.lines) :
                   Before(buffer.cursor, p) => ~Before(p, buffer'.cursor)
         /\ obs'.op = "b" =>
              /\ Before(buffer'.cursor, buffer.cursor)
              /\ \A p \in WordStarts(buffer.lines) :
                   Before(p, buffer.cursor) => ~Before(buffer'.cursor, p)
    ]_vars

----------------------------------------------------------------------------
(* Claims about the cap of the undo history *)

\* the calls so far were edits followed by undos only
EditsThenUndos(calls) ==
  /\ \A i \in 1..Len(calls) : calls[i] \in {"edit", "undo"}
  /\ \A i, j \in 1..Len(calls) : (calls[i] = "undo" /\ i < j) => calls[j] = "undo"

\* the number of calls named name
CountOf(calls, name) == Cardinality({ i \in 1..Len(calls) : calls[i] = name })

\* C35: at all times history.length <= historyLimit and
\* -1 <= historyIndex <= history.length - 1; after N edits exactly
\* min(N, historyLimit) consecutive undos succeed and the next undo returns false
\* without changing the buffer.
HistoryCapped ==
  [][ /\ Len(buffer'.history) <= historyLimit
      /\ buffer'.historyIndex >= -1
      /\ buffer'.historyIndex <= Len(buffer'.history) - 1
      /\ ( obs'.op = "undo" /\ obs'.n = obs.n + 1 /\ EditsThenUndos(obs.keys) )
         => IF CountOf(obs.keys, "undo") < Min(CountOf(obs.keys, "edit"), historyLimit)
            THEN obs'.ret = TRUE
            ELSE obs'.ret = FALSE /\ Snapshot(buffer') = Snapshot(buffer)
    ]_vars

\* more edits than the cap, as many undos as the cap, and one more undo refused
HistoryCappedWitness ==
  /\ EditsThenUndos(obs.keys)
  /\ CountOf(obs.keys, "edit") > historyLimit
  /\ CountOf(obs.keys, "undo") = historyLimit + 1
  /\ obs.op = "undo" /\ obs.ret = FALSE
  /\ Len(buffer.history) = historyLimit

----------------------------------------------------------------------------
(* Claims about the end of a pending key sequence *)

\* keys are buffered and wait for the timeout or for a further key
KeysPending == screen.process = "running" /\ screen.inputBuffer # <<>>

\* C36: a non-empty pending key buffer is eventually emptied (by an immediate commit
\* or by the timeout), after which no timer is pending; and whenever it is emptied
\* (other than by the escape key), its keys have been passed to the handler of the
\* current mode.
PendingKeysResolved ==
  /\ KeysPending ~> ( \/ screen.process # "running"
                      \/ (screen.inputBuffer = <<>> /\ ~screen.inputTimeout) )
  /\ [][ ( /\ KeysPending /\ screen'.process = "running" /\ screen'.inputBuffer = <<>>
           /\ obs'.op # "<Esc>" )
         => \E i \in 1..Len(screen'.dispatched) :
              /\ i > Len(screen.dispatched)
              /\ SubSeq(screen'.dispatched[i], 1, Len(screen.inputBuffer)) = screen.inputBuffer
       ]_vars

----------------------------------------------------------------------------
(* Claims about quitting *)

\* C37: a key command that changes the buffer text sets the modified flag, so that the
\* command q (without !) never quits while the text differs from what was last written
\* or loaded.
QuitKeepsUnsavedText ==
  [][ /\ buffer'.lines # obs'.initial => buffer'.modified
      /\ ( /\ obs'.n = obs.n + 1 /\ obs'.op = "<CR>" /\ obs'.command = <<"q">>
           /\ screen'.process = "exited" )
         => buffer.lines = obs.initial
    ]_vars

\* the suspended command that is resumed is wq or x
ResumesWriteQuit ==
  /\ obs'.op = "<resume>" /\ commandMode.pending # <<>>
  /\ Head(commandMode.pending).kind = "writeQuit"

\* C38: wq and x quit only when the write succeeded: when it fails (or there is no file
\* name) the editor does not exit and the buffer keeps its text and its modified flag.
WriteQuitNeedsWrite ==
  [][ (ResumesWriteQuit /\ screen'.message # "written")
      => /\ screen'.process = "running"
         /\ buffer'.lines = buffer.lines
         /\ buffer'.modified = buffer.modified
    ]_vars

----------------------------------------------------------------------------
(* Claims about leaving a mode *)

\* the length of the key sequences tried
MaxLeaveKeys == 2

\* some sequence of at most depth key presses and timeouts brings the mode to normal
RECURSIVE CanReachNormal(_, _)
CanReachNormal(w, depth) ==
  \/ w.e.mode = "normal"
  \/ /\ depth > 0 /\ ~w.exit /\ ~w.b.threw
     /\ \/ \E keyStr \in ScreenKeys : CanReachNormal(handleKeyPress(w, keyStr), depth - 1)
        \/ w.timer /\ CanReachNormal(inputTimeoutFired(w), depth - 1)

\* C39: every mode the editor can enter can be left again: from each reachable mode
\* value some sequence of keys brings the mode back to Normal.
ModesCanBeLeft ==
  screen.process = "running" => CanReachNormal(World, MaxLeaveKeys)

----------------------------------------------------------------------------
(* Claims about typing in Insert mode *)

\* C40: in Insert mode a typed printable character is inserted into the line at the
\* cursor and the cursor advances by one column, so that the characters c1 ... cn
\* appear in typing order from the original cursor position and the cursor ends just
\* after cn.
TypedCharAdvances ==
  [][ ( /\ Handles("insert") /\ obs'.op \notin BracketKeys
        /\ HasLine(buffer, buffer.cursor.row) )
      => LET row  == buffer.cursor.row
             col  == buffer.cursor.col
             line == buffer.lines[row + 1]
         IN  /\ buffer'.lines = [buffer.lines EXCEPT ![row + 1] =
                                   Slice(line, 0, col) \o <<obs'.op>> \o SliceFrom(line, col)]
             /\ buffer'.cursor = Pos(row, col + 1)
    ]_vars

=============================================================================
